---- MODULE Spec2Model ----
(***************************************************************************)
(* A model of the layers of src/layers.py: GCNFilter, GraphConvolution,    *)
(* GraphAttention, MeanAggregator, ResidualLayer and the recurrent cells   *)
(* GRUCell, LSTMCell, TLSTMCell, GCRN1Cell and GCRN2Cell.  Each layer is   *)
(* an object with a lifecycle (constructed, built on first call, called);  *)
(* tensors are sequences of rows; numbers are decimal fixed-point values   *)
(* with the IEEE specials inf, -inf and NaN.                               *)
(***************************************************************************)
EXTENDS Integers, Sequences, FiniteSets, TLC

VARIABLES flt, gc, gat, agg, gru, lstm, tlstm, gcrn, resid

vars == <<flt, gc, gat, agg, gru, lstm, tlstm, gcrn, resid>>

\* A layer no specification has constructed.
GcIdle == [phase |-> "new"]
GatIdle == [phase |-> "new"]
Idle == [phase |-> "new"]

\* The layers of the other classes, none constructed.
CellsIdle == gru = Idle /\ lstm = Idle /\ tlstm = Idle /\ gcrn = Idle
AuxIdle == agg = Idle /\ resid = Idle

(***************************************************************************)
(* Bounds of the model.                                                    *)
(***************************************************************************)
MaxN == 2          \* nodes of a graph snapshot: 1..MaxN
MaxSupport == 3    \* support orders offered to GCNFilter: 0..MaxSupport
MaxF == 2          \* input feature widths: 1..MaxF
MaxU == 2          \* output widths (units, feature_size): 1..MaxU
MaxS == 2          \* matrices in a basis handed to GraphConvolution: 1..MaxS
MaxSeed == 2       \* draws of an initializer: 0..MaxSeed
MaxXSeed == 1      \* draws of an input tensor: 0..MaxXSeed
MaxHeads == 2      \* attention heads: 1..MaxHeads
MaxDropSeed == 1   \* draws of the dropout masks of one call: 0..MaxDropSeed

(***************************************************************************)
(* Numbers.  A tensor entry is a float; the model keeps a finite float as  *)
(* the integer nearest to Q times its value, and the three specials as     *)
(* integers outside the finite range.  Every operation rounds to nearest,  *)
(* as a float operation does.                                              *)
(***************************************************************************)
Q == 1000
PInf == 2000000000
NInf == 0 - PInf
NaN == 2000000001

IsFinite(x) == x # NaN /\ x # PInf /\ x # NInf

Abs(x) == IF x < 0 THEN 0 - x ELSE x

\* n / d rounded to the nearest integer, for d > 0 (\div floors, % is >= 0).
RoundDiv(n, d) == (n \div d) + (IF 2 * (n % d) >= d THEN 1 ELSE 0)

FNeg(a) ==
    IF a = NaN THEN NaN
    ELSE IF a = PInf THEN NInf
    ELSE IF a = NInf THEN PInf
    ELSE 0 - a

FAdd(a, b) ==
    IF a = NaN \/ b = NaN THEN NaN
    ELSE IF a = PInf THEN (IF b = NInf THEN NaN ELSE PInf)
    ELSE IF a = NInf THEN (IF b = PInf THEN NaN ELSE NInf)
    ELSE IF b = PInf \/ b = NInf THEN b
    ELSE a + b

FSub(a, b) == FAdd(a, FNeg(b))

FMul(a, b) ==
    IF a = NaN \/ b = NaN THEN NaN
    ELSE IF ~IsFinite(a) \/ ~IsFinite(b)
         THEN (IF a = 0 \/ b = 0 THEN NaN
               ELSE IF (a > 0) = (b > 0) THEN PInf ELSE NInf)
    ELSE RoundDiv(a * b, Q)

FDiv(a, b) ==
    IF a = NaN \/ b = NaN THEN NaN
    ELSE IF ~IsFinite(a)
         THEN (IF ~IsFinite(b) THEN NaN
               ELSE IF (a > 0) = (b >= 0) THEN PInf ELSE NInf)
    ELSE IF ~IsFinite(b) THEN 0
    ELSE IF b = 0
         THEN (IF a = 0 THEN NaN ELSE IF a > 0 THEN PInf ELSE NInf)
    ELSE IF b > 0 THEN RoundDiv(a * Q, b)
    ELSE RoundDiv((0 - a) * Q, 0 - b)

\* The largest r in lo..hi-1 with r*r <= n, given lo*lo <= n < hi*hi.
RECURSIVE ISqrtIn(_, _, _)
ISqrtIn(n, lo, hi) ==
    IF hi - lo <= 1 THEN lo
    ELSE LET mid == (lo + hi) \div 2
         IN  IF mid * mid <= n THEN ISqrtIn(n, mid, hi) ELSE ISqrtIn(n, lo, mid)

ISqrt(n) == ISqrtIn(n, 0, 31624)

\* tf.pow(x, -0.5): 1/sqrt(x); pow(0, -0.5) is inf and pow of a negative is NaN.
PowNegHalf(x) ==
    IF x = NaN \/ x = NInf THEN NaN
    ELSE IF x = PInf THEN 0
    ELSE IF x = 0 THEN PInf
    ELSE IF x < 0 THEN NaN
    ELSE ISqrt((Q * Q * Q) \div x)

(***************************************************************************)
(* Tensors.  A matrix is a sequence of rows, a row a sequence of numbers,  *)
(* a stack a sequence of matrices.                                         *)
(***************************************************************************)
Rows(M) == Len(M)
Cols(M) == Len(M[1])

RECURSIVE FSum(_)
FSum(s) == IF s = <<>> THEN 0 ELSE FAdd(FSum(SubSeq(s, 1, Len(s) - 1)), s[Len(s)])

MatMul(A, B) ==
    [i \in 1..Rows(A) |->
        [j \in 1..Cols(B) |-> FSum([k \in 1..Rows(B) |-> FMul(A[i][k], B[k][j])])]]

Transpose(M) == [j \in 1..Cols(M) |-> [i \in 1..Rows(M) |-> M[i][j]]]

MatSub(A, B) == [i \in 1..Rows(A) |-> [j \in 1..Cols(A) |-> FSub(A[i][j], B[i][j])]]

MatScale(c, M) == [i \in 1..Rows(M) |-> [j \in 1..Cols(M) |-> FMul(c, M[i][j])]]

Eye(n) == [i \in 1..n |-> [j \in 1..n |-> IF i = j THEN Q ELSE 0]]

Diag(v) == [i \in 1..Len(v) |-> [j \in 1..Len(v) |-> IF i = j THEN v[i] ELSE 0]]

RowSums(M) == [i \in 1..Rows(M) |-> FSum(M[i])]

AllFinite(M) == \A i \in 1..Rows(M) : \A j \in 1..Cols(M) : IsFinite(M[i][j])

(***************************************************************************)
(* exp of a value x <= 0: e^-k from a table for the integer part, a Taylor *)
(* polynomial for the fraction; below e^-8 the result rounds to 0.         *)
(***************************************************************************)
ExpInt == <<1000, 368, 135, 50, 18, 7, 2, 1>>

ExpFrac(f) ==
    LET t5 == Q - RoundDiv(f, 5)
        t4 == Q - RoundDiv(f * t5, 4 * Q)
        t3 == Q - RoundDiv(f * t4, 3 * Q)
        t2 == Q - RoundDiv(f * t3, 2 * Q)
    IN  Q - RoundDiv(f * t2, Q)

ExpNeg(x) ==
    IF x = NaN THEN NaN
    ELSE IF x = NInf THEN 0
    ELSE LET k == (0 - x) \div Q
             f == (0 - x) % Q
         IN  IF k >= Len(ExpInt) THEN 0 ELSE FMul(ExpInt[k + 1], ExpFrac(f))

\* keras.activations.get(name), applied to one entry.
Activation(name, x) ==
    IF x = NaN THEN NaN
    ELSE IF name = "relu" THEN (IF x > 0 THEN x ELSE 0)
    ELSE IF name = "elu" THEN (IF x > 0 THEN x ELSE FSub(ExpNeg(x), Q))
    ELSE IF name = "sigmoid"
         THEN (IF x >= 0 THEN FDiv(Q, FAdd(Q, ExpNeg(FNeg(x))))
               ELSE FDiv(ExpNeg(x), FAdd(Q, ExpNeg(x))))
    ELSE IF name = "tanh"
         THEN (IF x = PInf THEN Q
               ELSE IF x = NInf THEN 0 - Q
               ELSE LET t == ExpNeg(0 - (2 * Abs(x)))
                        y == FDiv(Q - t, Q + t)
                    IN  IF x >= 0 THEN y ELSE 0 - y)
    ELSE x

Activate(name, M) ==
    [i \in 1..Rows(M) |-> [j \in 1..Cols(M) |-> Activation(name, M[i][j])]]

\* tf.nn.bias_add
BiasAdd(M, b) == [i \in 1..Rows(M) |-> [j \in 1..Cols(M) |-> FAdd(M[i][j], b[j])]]

(***************************************************************************)
(* Drawn tensors.  An initializer (or the caller, for an input) draws a    *)
(* tensor; the model offers the tensors DrawMatrix(seed, r, c) for a few   *)
(* seeds, whose entries run through -1, 0 and 1 in an order the seed sets. *)
(***************************************************************************)
DrawVals == <<0 - Q, 0, Q>>

Draw(seed, k) == DrawVals[1 + ((seed + k + (k \div 3)) % 3)]

DrawMatrix(seed, r, c) ==
    [i \in 1..r |-> [j \in 1..c |-> Draw(seed, (i - 1) * c + (j - 1))]]

\* initializer='zeros' / 'ones' / a random one
InitVector(initializer, seed, n) ==
    [j \in 1..n |-> IF initializer = "zeros" THEN 0
                    ELSE IF initializer = "ones" THEN Q
                    ELSE Draw(seed, j - 1)]

(***************************************************************************)
(* Broadcasting, as the elementwise operators of the tensor library do it: *)
(* two matrices are compatible when their shapes agree or one is 1 x 1.    *)
(***************************************************************************)
SameShape(A, B) == Rows(A) = Rows(B) /\ Cols(A) = Cols(B)

IsScalarMat(M) == Rows(M) = 1 /\ Cols(M) = 1

Broadcastable(A, B) == SameShape(A, B) \/ IsScalarMat(A) \/ IsScalarMat(B)

BroadcastSub(A, B) ==
    IF SameShape(A, B) THEN MatSub(A, B)
    ELSE IF IsScalarMat(B)
         THEN [i \in 1..Rows(A) |-> [j \in 1..Cols(A) |-> FSub(A[i][j], B[1][1])]]
    ELSE [i \in 1..Rows(B) |-> [j \in 1..Cols(B) |-> FSub(A[1][1], B[i][j])]]

(***************************************************************************)
(* Elementwise operators on two matrices, with the tensor library's        *)
(* broadcasting: a dimension of size 1 is stretched to the other           *)
(* operand's size; any other difference of sizes is an error.              *)
(***************************************************************************)
Max2(a, b) == IF a >= b THEN a ELSE b

Compatible(A, B) ==
    /\ Rows(A) = Rows(B) \/ Rows(A) = 1 \/ Rows(B) = 1
    /\ Cols(A) = Cols(B) \/ Cols(A) = 1 \/ Cols(B) = 1

At(M, i, j) == M[IF Rows(M) = 1 THEN 1 ELSE i][IF Cols(M) = 1 THEN 1 ELSE j]

Plus(A, B) ==
    [i \in 1..Max2(Rows(A), Rows(B)) |->
        [j \in 1..Max2(Cols(A), Cols(B)) |-> FAdd(At(A, i, j), At(B, i, j))]]

Times(A, B) ==
    [i \in 1..Max2(Rows(A), Rows(B)) |->
        [j \in 1..Max2(Cols(A), Cols(B)) |-> FMul(At(A, i, j), At(B, i, j))]]

\* 1 - M
OneMinus(M) == [i \in 1..Rows(M) |-> [j \in 1..Cols(M) |-> FSub(Q, M[i][j])]]

Zeros(r, c) == [i \in 1..r |-> [j \in 1..c |-> 0]]

IsZero(M) == \A i \in 1..Rows(M) : \A j \in 1..Cols(M) : M[i][j] = 0

(***************************************************************************)
(* tf.linalg.eigvalsh reads the lower triangle of its argument and returns *)
(* the eigenvalues of the symmetric matrix it stands for.  The largest one *)
(* is the least lam for which lam*I - S is not positive definite above it; *)
(* the model finds it by bisection on the fixed-point grid.  A matrix      *)
(* holding inf or NaN gives NaN.                                           *)
(***************************************************************************)
LowerSym(M) ==
    [i \in 1..Rows(M) |-> [j \in 1..Rows(M) |-> IF j <= i THEN M[i][j] ELSE M[j][i]]]

\* The Schur complement of the first pivot of M.
Schur(M) ==
    [i \in 1..(Rows(M) - 1) |->
        [j \in 1..(Rows(M) - 1) |->
            M[i + 1][j + 1] - RoundDiv(M[i + 1][1] * M[1][j + 1], M[1][1])]]

\* A symmetric matrix is positive definite when every pivot of its
\* elimination is positive.
RECURSIVE PosDef(_)
PosDef(M) ==
    IF M[1][1] <= 0 THEN FALSE
    ELSE IF Rows(M) = 1 THEN TRUE
    ELSE PosDef(Schur(M))

ShiftNeg(S, lam) ==
    [i \in 1..Rows(S) |->
        [j \in 1..Rows(S) |-> IF i = j THEN lam - S[i][j] ELSE 0 - S[i][j]]]

RECURSIVE MaxOf(_)
MaxOf(s) ==
    IF Len(s) = 1 THEN s[1]
    ELSE LET m == MaxOf(SubSeq(s, 1, Len(s) - 1))
         IN  IF s[Len(s)] > m THEN s[Len(s)] ELSE m

\* Gershgorin: every eigenvalue of S lies within the largest absolute row sum.
EigBound(S) == 1 + MaxOf([i \in 1..Rows(S) |-> FSum([j \in 1..Rows(S) |-> Abs(S[i][j])])])

\* lam*I - S is positive definite at hi and not at lo.
RECURSIVE EigBisect(_, _, _)
EigBisect(S, lo, hi) ==
    IF hi - lo <= 1 THEN lo
    ELSE LET mid == (lo + hi) \div 2
         IN  IF PosDef(ShiftNeg(S, mid)) THEN EigBisect(S, lo, mid)
             ELSE EigBisect(S, mid, hi)

LargestEigval(M) ==
    IF ~AllFinite(M) THEN NaN
    ELSE LET S == LowerSym(M)
         IN  EigBisect(S, 0 - EigBound(S), EigBound(S))

(***************************************************************************)
(* GCNFilter.                                                              *)
(***************************************************************************)
FilterModes == {"localpool", "chebyshev"}

\* GCNFilter.__init__: the branch taken and its assertion.
FilterProcess(mode) == IF mode = "localpool" THEN "_localpool" ELSE "_chebyshev"

\* An assertion that lets chebyshev through with support 1.
FilterAcceptsLoose(mode, support) == support >= 1

FilterAccepts(mode, support) ==
    IF mode = "localpool" THEN support >= 1 ELSE support >= 2

\* d = tf.linalg.diag(tf.pow(tf.reduce_sum(inputs, axis=-1), -0.5))
DegreeInvSqrt(inputs) ==
    Diag([i \in 1..Rows(inputs) |-> PowNegHalf(RowSums(inputs)[i])])

\* tf.matmul(tf.transpose(tf.matmul(inputs, d)), d)
NormalizedAdj(inputs) ==
    LET d == DegreeInvSqrt(inputs)
    IN  MatMul(Transpose(MatMul(inputs, d)), d)

\* GCNFilter._localpool
Localpool(inputs) == [ok |-> TRUE, out |-> <<NormalizedAdj(inputs)>>]

\* A loop that stops one step early: range(2, support).
RECURSIVE ChebLoopShort(_, _, _, _)
ChebLoopShort(out, scaled, i, support) ==
    IF i >= support THEN [ok |-> TRUE, out |-> out]
    ELSE LET prod == MatScale(2 * Q, MatMul(scaled, out[Len(out)]))
             prev == out[Len(out) - 1]
         IN  IF ~Broadcastable(prod, prev) THEN [ok |-> FALSE, out |-> <<>>]
             ELSE ChebLoopShort(Append(out, BroadcastSub(prod, prev)), scaled,
                                i + 1, support)

\* A loop that subtracts out[-1] where the code subtracts out[-2].
RECURSIVE ChebLoopLast(_, _, _, _)
ChebLoopLast(out, scaled, i, support) ==
    IF i > support THEN [ok |-> TRUE, out |-> out]
    ELSE LET prod == MatScale(2 * Q, MatMul(scaled, out[Len(out)]))
             prev == out[Len(out)]
         IN  IF ~Broadcastable(prod, prev) THEN [ok |-> FALSE, out |-> <<>>]
             ELSE ChebLoopLast(Append(out, BroadcastSub(prod, prev)), scaled,
                               i + 1, support)

\* The loop of GCNFilter._chebyshev: for i in range(2, support + 1).
RECURSIVE ChebLoop(_, _, _, _)
ChebLoop(out, scaled, i, support) ==
    IF i > support THEN [ok |-> TRUE, out |-> out]
    ELSE LET prod == MatScale(2 * Q, MatMul(scaled, out[Len(out)]))
             prev == out[Len(out) - 1]
         IN  IF ~Broadcastable(prod, prev) THEN [ok |-> FALSE, out |-> <<>>]
             ELSE ChebLoop(Append(out, BroadcastSub(prod, prev)), scaled, i + 1, support)

\* tf.stack: every element must have the same shape.
Stackable(out) == \A k \in 1..Len(out) : SameShape(out[k], out[1])

\* laplacian = tf.eye(self.shape) - adj_norm
Laplacian(inputs, shape) == BroadcastSub(Eye(shape), NormalizedAdj(inputs))

\* scaled_laplacian = (2. / largest_eigval) * laplacian - tf.eye(self.shape)
ScaledLaplacian(inputs, shape) ==
    LET laplacian == Laplacian(inputs, shape)
        largest_eigval == LargestEigval(laplacian)
    IN  BroadcastSub(MatScale(FDiv(2 * Q, largest_eigval), laplacian), Eye(shape))

\* GCNFilter._chebyshev, with self.shape as recorded by build.
Chebyshev(inputs, shape, support) ==
    IF ~Broadcastable(Eye(shape), NormalizedAdj(inputs)) THEN [ok |-> FALSE, out |-> <<>>]
    ELSE LET scaled_laplacian == ScaledLaplacian(inputs, shape)
             res == ChebLoop(<<Eye(shape), scaled_laplacian>>, scaled_laplacian, 2, support)
         IN  IF res.ok /\ Stackable(res.out) THEN res
             ELSE [ok |-> FALSE, out |-> <<>>]

FilterCompute(f, inputs, shape) ==
    IF f.process = "_localpool" THEN Localpool(inputs)
    ELSE Chebyshev(inputs, shape, f.support)

\* The adjacency matrices offered to a filter: N x N, entries 0 or 1.
Adjacencies(n) == [1..n -> [1..n -> {0, Q}]]

FilterNew == [phase |-> "new", mode |-> "", process |-> "", support |-> 0,
              built |-> FALSE, shape |-> 0, inputs |-> <<>>, out |-> <<>>]

\* GCNFilter(mode, support)
NewGCNFilter(mode, support) ==
    /\ flt.phase = "new"
    /\ flt' = IF FilterAccepts(mode, support)
              THEN [flt EXCEPT !.phase = "ready", !.mode = mode,
                               !.process = FilterProcess(mode), !.support = support]
              ELSE [flt EXCEPT !.phase = "rejected", !.mode = mode, !.support = support]
    /\ UNCHANGED <<gc, gat, agg, gru, lstm, tlstm, gcrn, resid>>

\* filter(inputs): build on the first call, then call.
FilterCall(inputs) ==
    /\ flt.phase = "ready"
    /\ LET shape == IF flt.built THEN flt.shape ELSE Cols(inputs)
           res == FilterCompute(flt, inputs, shape)
       IN  flt' = [flt EXCEPT !.built = TRUE, !.shape = shape, !.inputs = inputs,
                              !.phase = IF res.ok THEN "returned" ELSE "raised",
                              !.out = res.out]
    /\ UNCHANGED <<gc, gat, agg, gru, lstm, tlstm, gcrn, resid>>

\* The caller takes the result (or the error) of the last call.
FilterRelease ==
    /\ flt.phase \in {"returned", "raised"}
    /\ flt' = [flt EXCEPT !.phase = "ready", !.inputs = <<>>, !.out = <<>>]
    /\ UNCHANGED <<gc, gat, agg, gru, lstm, tlstm, gcrn, resid>>

(***************************************************************************)
(* GraphConvolution.                                                       *)
(***************************************************************************)
RECURSIVE Flatten(_)
Flatten(ss) ==
    IF ss = <<>> THEN <<>> ELSE Flatten(SubSeq(ss, 1, Len(ss) - 1)) \o ss[Len(ss)]

\* A concatenation that takes the blocks in the reverse order.
ConcatColsReversed(ms) ==
    [i \in 1..Rows(ms[1]) |-> Flatten([s \in 1..Len(ms) |-> ms[Len(ms) + 1 - s][i]])]

\* tf.concat(os, axis=1)
ConcatCols(ms) == [i \in 1..Rows(ms[1]) |-> Flatten([s \in 1..Len(ms) |-> ms[s][i]])]

NoCall == [features |-> <<>>, basis |-> <<>>, concat |-> <<>>, out |-> <<>>]

\* GraphConvolution.__init__: the layers a caller may construct.
GcLayers ==
    { [phase |-> "ready", units |-> u, use_bias |-> ub, activation |-> act,
       bias_initializer |-> bi, built |-> FALSE, support |-> 0,
       kernel |-> <<>>, bias |-> <<>>, last |-> NoCall, again |-> NoCall] :
      u \in 1..MaxU, ub \in BOOLEAN, act \in {"relu", "sigmoid"},
      bi \in {"zeros", "ones"} }

\* GraphConvolution.build(input_shapes), input_shapes = <<N, F>>, <<S, N, N>>
GcBuild(layer, features_shape, adjoint_shape, seed) ==
    LET input_dim == features_shape[2]
        support == adjoint_shape[1]
    IN  [layer EXCEPT
           !.built = TRUE,
           !.support = support,
           !.kernel = DrawMatrix(seed, input_dim * support, layer.units),
           !.bias = IF layer.use_bias
                    THEN InitVector(layer.bias_initializer, seed, layer.units)
                    ELSE <<>>]

\* A call that keeps the list os of the call before it.
GcApplyKeepingOs(layer, features, basis) ==
    LET output == [s \in 1..Len(basis) |-> MatMul(basis[s], features)]
        os == [i \in 1..layer.support |-> output[i]]
        concat == ConcatCols(os)
        prod == MatMul(concat, layer.kernel)
        biased == IF layer.use_bias THEN BiasAdd(prod, layer.bias) ELSE prod
    IN  IF layer.last.out = <<>>
        THEN [features |-> features, basis |-> basis, concat |-> concat,
              out |-> Activate(layer.activation, biased)]
        ELSE [features |-> features, basis |-> basis,
              concat |-> ConcatCols(<<layer.last.concat, concat>>), out |-> <<>>]

\* GraphConvolution.call(inputs) on a built layer.
GcApply(layer, features, basis) ==
    LET output == [s \in 1..Len(basis) |-> MatMul(basis[s], features)]
        os == [i \in 1..layer.support |-> output[i]]
        concat == ConcatCols(os)
        prod == MatMul(concat, layer.kernel)
        biased == IF layer.use_bias THEN BiasAdd(prod, layer.bias) ELSE prod
    IN  [features |-> features, basis |-> basis, concat |-> concat,
         out |-> Activate(layer.activation, biased)]

\* A basis of S drawn N x N matrices.
DrawStack(seed, S, n) == [s \in 1..S |-> DrawMatrix(seed + s, n, n)]

\* The first call of a layer: build from the shapes of the inputs, then call.
GcFirstCall(features, basis, seed) ==
    /\ gc.phase = "ready"
    /\ ~gc.built
    /\ LET built == GcBuild(gc, <<Rows(features), Cols(features)>>,
                            <<Len(basis), Rows(basis[1]), Rows(basis[1])>>, seed)
       IN  gc' = [built EXCEPT !.phase = "returned",
                               !.last = GcApply(built, features, basis)]
    /\ UNCHANGED <<flt, gat, agg, gru, lstm, tlstm, gcrn, resid>>

\* A later call, the result of the call before it taken by the caller.
GcCall(features, basis) ==
    /\ gc.phase = "ready"
    /\ gc.built
    /\ gc' = [gc EXCEPT !.phase = "returned", !.last = GcApply(gc, features, basis)]
    /\ UNCHANGED <<flt, gat, agg, gru, lstm, tlstm, gcrn, resid>>

\* A second call while the caller still holds the result of the first.
GcCallAgain(features, basis) ==
    /\ gc.phase = "returned"
    /\ gc' = [gc EXCEPT !.phase = "twice", !.again = GcApply(gc, features, basis)]
    /\ UNCHANGED <<flt, gat, agg, gru, lstm, tlstm, gcrn, resid>>

\* The caller drops the results it holds.
GcRelease ==
    /\ gc.phase \in {"returned", "twice"}
    /\ gc' = [gc EXCEPT !.phase = "ready", !.last = NoCall, !.again = NoCall]
    /\ UNCHANGED <<flt, gat, agg, gru, lstm, tlstm, gcrn, resid>>

GcInputF == Rows(gc.kernel) \div gc.support

InitGC ==
    gc \in GcLayers /\ flt = FilterNew /\ gat = GatIdle /\ CellsIdle /\ AuxIdle

NextGC ==
    \/ \E n \in 1..MaxN, f \in 1..MaxF, S \in 1..MaxS,
          xs \in 0..MaxXSeed, bs \in 0..MaxXSeed, seed \in 0..MaxSeed :
          GcFirstCall(DrawMatrix(xs, n, f), DrawStack(bs, S, n), seed)
    \/ \E n \in 1..MaxN, xs \in 0..MaxXSeed, bs \in 0..MaxXSeed :
          GcCall(DrawMatrix(xs, n, GcInputF), DrawStack(bs, gc.support, n))
    \/ \E n \in 1..MaxN, xs \in 0..MaxXSeed, bs \in 0..MaxXSeed :
          GcCallAgain(DrawMatrix(xs, n, GcInputF), DrawStack(bs, gc.support, n))
    \/ GcRelease

SpecGC == InitGC /\ [][NextGC]_vars

InitFilter ==
    flt = FilterNew /\ gc = GcIdle /\ gat = GatIdle /\ CellsIdle /\ AuxIdle

NextFilter ==
    \/ \E mode \in FilterModes, support \in 0..MaxSupport : NewGCNFilter(mode, support)
    \/ \E n \in 1..MaxN : \E inputs \in Adjacencies(n) : FilterCall(inputs)
    \/ FilterRelease

SpecFilter == InitFilter /\ [][NextFilter]_vars

(***************************************************************************)
(* GraphAttention.                                                         *)
(*                                                                         *)
(* The mask constant -10e9 lies outside the range the model's numbers      *)
(* have, so a logit is kept in two parts: v, a number, and m, how many     *)
(* times -10e9 was added to it.  float32 has a 24-bit significand: at the  *)
(* magnitude of 10e9 neighbouring floats are 1024 apart, so adding -10e9   *)
(* to a logit of magnitude below 512 gives -10e9 exactly, and v becomes 0. *)
(***************************************************************************)
\* keras.layers.Dropout(rate)(M): identity unless training; in training a
\* kept entry is scaled by 1/(1 - rate) and a dropped one is 0.  The masks
\* of one call are set by its draw dseed; site numbers the Dropout layers
\* the call creates, in order.
Kept(dseed, site, i, j) == dseed = 0 \/ (dseed + site + i + j) % 2 = 0

Dropout(rate, training, dseed, site, M) ==
    IF ~training THEN M
    ELSE [i \in 1..Rows(M) |->
            [j \in 1..Cols(M) |->
                IF Kept(dseed, site, i, j) THEN FMul(M[i][j], FDiv(Q, Q - rate))
                ELSE 0]]

\* keras.layers.LeakyReLU(0.2)
LeakyReLU(x) == IF x >= 0 THEN x ELSE FMul(200, x)

RECURSIVE MinOf(_)
MinOf(s) ==
    IF Len(s) = 1 THEN s[1]
    ELSE LET m == MinOf(SubSeq(s, 1, Len(s) - 1))
         IN  IF s[Len(s)] < m THEN s[Len(s)] ELSE m

\* A softmax that leaves out the division by the sum.
SoftmaxRowUnnormalized(v, m) ==
    LET mmin == MinOf(m)
        top == MaxOf([j \in 1..Len(v) |-> IF m[j] = mmin THEN v[j] ELSE NInf])
    IN  [j \in 1..Len(v) |-> IF m[j] = mmin THEN ExpNeg(v[j] - top) ELSE 0]

\* tf.nn.softmax of one row: exp(x - max) / sum.  An entry with more mask
\* constants than the row's largest entry is 10e9 below it: its exp is 0.
SoftmaxRow(v, m) ==
    LET mmin == MinOf(m)
        top == MaxOf([j \in 1..Len(v) |-> IF m[j] = mmin THEN v[j] ELSE NInf])
        e == [j \in 1..Len(v) |-> IF m[j] = mmin THEN ExpNeg(v[j] - top) ELSE 0]
        total == FSum(e)
    IN  [j \in 1..Len(v) |-> FDiv(e[j], total)]

\* One statement of lines 134-137 applied to the logits d = [v, m], A the
\* adjacency (entries 0 or 1).
ApplyStage(stage, d, A) ==
    IF stage = "leaky"
    THEN [d EXCEPT !.v = [i \in 1..Rows(d.v) |->
                            [j \in 1..Cols(d.v) |-> LeakyReLU(d.v[i][j])]]]
    ELSE IF stage = "mask"
    THEN [v |-> [i \in 1..Rows(d.v) |->
                   [j \in 1..Cols(d.v) |-> IF At(A, i, j) = Q THEN d.v[i][j] ELSE 0]],
          m |-> [i \in 1..Rows(d.v) |->
                   [j \in 1..Cols(d.v) |->
                       d.m[i][j] + (IF At(A, i, j) = Q THEN 0 ELSE 1)]]]
    ELSE [v |-> [i \in 1..Rows(d.v) |-> SoftmaxRow(d.v[i], d.m[i])],
          m |-> [i \in 1..Rows(d.v) |-> [j \in 1..Cols(d.v) |-> 0]]]

RECURSIVE RunStages(_, _, _)
RunStages(stages, d, A) ==
    IF stages = <<>> THEN d
    ELSE ApplyStage(stages[Len(stages)],
                    RunStages(SubSeq(stages, 1, Len(stages) - 1), d, A), A)

\* Lines 134-137: LeakyReLU, dense += mask, softmax.
AttnStages == <<"leaky", "mask", "softmax">>

\* The value a Python name is bound to by one assignment: the element of a
\* set of one element.
The(S) == CHOOSE v \in S : TRUE

\* One pass of the head loop of GraphAttention.call; X is the feature
\* matrix as the pass finds it, head counts from 1.
GatHead(layer, X, A, training, dseed, head) ==
    LET kernel == layer.kernels[head]
        attention_kernel == layer.attn_kernels[head]
        site == 3 * (head - 1)
        zero == [i \in 1..Rows(X) |-> [j \in 1..Rows(X) |-> 0]]
    IN  The({ The({ The({ The({
            [X |-> Xd, attn |-> attn, stages |-> AttnStages,
             output |-> Activate(layer.activation,
                          BiasAdd(MatMul(Dropout(layer.dropout_prob, training, dseed,
                                                 site + 1, attn),
                                         Dropout(layer.dropout_prob, training, dseed,
                                                 site + 2, features)),
                                  layer.biases[head]))] :
            attn \in { RunStages(AttnStages,
                                 [v |-> [i \in 1..Rows(X) |->
                                           [j \in 1..Rows(X) |->
                                              FAdd(attn_for_self[i][1],
                                                   attn_for_neighs[j][1])]],
                                  m |-> zero], A).v } }) :
            attn_for_self \in { MatMul(features, attention_kernel[1]) },
            attn_for_neighs \in { MatMul(features, attention_kernel[2]) } }) :
            features \in { MatMul(Xd, kernel) } }) :
            Xd \in { Dropout(layer.dropout_prob, training, dseed, site, X) } })

\* The head loop: the passes of heads 1..head, each on the X the pass
\* before it left.
RECURSIVE GatHeads(_, _, _, _, _, _)
GatHeads(layer, X, A, training, dseed, head) ==
    IF head = 0 THEN <<>>
    ELSE LET before == GatHeads(layer, X, A, training, dseed, head - 1)
             Xin == IF head = 1 THEN X ELSE before[head - 1].X
         IN  Append(before, GatHead(layer, Xin, A, training, dseed, head))

\* tf.reduce_mean(tf.stack(outputs), axis=0)
MeanOf(outputs) ==
    [i \in 1..Rows(outputs[1]) |->
        [j \in 1..Cols(outputs[1]) |->
            FDiv(FSum([h \in 1..Len(outputs) |-> outputs[h][i][j]]), Len(outputs) * Q)]]

\* A combination that takes the mean where the layer is set to concatenate
\* and concatenates where it is set to take the mean.
GatCombineSwapped(reduction, outputs) ==
    IF reduction = "concat" THEN MeanOf(outputs) ELSE ConcatCols(outputs)

\* Lines 150-153.
GatCombine(reduction, outputs) ==
    IF reduction = "concat" THEN ConcatCols(outputs) ELSE MeanOf(outputs)

\* GraphAttention.__init__: the layers a caller may construct.
GatLayers ==
    { [phase |-> "ready", feature_size |-> u, attn_heads |-> h,
       dropout_prob |-> 300, activation |-> "elu", attn_heads_reduction |-> red,
       bias_initializer |-> "zeros",
       built |-> FALSE, kernels |-> <<>>, biases |-> <<>>, attn_kernels |-> <<>>,
       X |-> <<>>, A |-> <<>>, training |-> FALSE, dseed |-> 0,
       heads |-> <<>>, out |-> <<>>] :
      u \in 1..MaxU, h \in 1..MaxHeads, red \in {"concat", "mean"} }

\* GraphAttention.build(input_shape): four weights per head.
GatBuild(layer, input_feature_size, seed) ==
    [layer EXCEPT
       !.built = TRUE,
       !.kernels = [h \in 1..layer.attn_heads |->
                      DrawMatrix(seed + 4 * (h - 1), input_feature_size, layer.feature_size)],
       !.biases = [h \in 1..layer.attn_heads |->
                     InitVector(layer.bias_initializer, seed, layer.feature_size)],
       !.attn_kernels = [h \in 1..layer.attn_heads |->
                           <<DrawMatrix(seed + 4 * (h - 1) + 1, layer.feature_size, 1),
                             DrawMatrix(seed + 4 * (h - 1) + 2, layer.feature_size, 1)>>]]

\* GraphAttention.call(inputs) on a built layer.
GatApply(layer, X, A, training, dseed) ==
    The({ [layer EXCEPT
             !.phase = "returned", !.X = X, !.A = A, !.training = training,
             !.dseed = dseed, !.heads = heads,
             !.out = GatCombine(layer.attn_heads_reduction,
                                [h \in 1..Len(heads) |-> heads[h].output])] :
          heads \in { GatHeads(layer, X, A, training, dseed, layer.attn_heads) } })

\* The first call of a layer: build, then call.
GatFirstCall(X, A, training, dseed, seed) ==
    /\ gat.phase = "ready"
    /\ ~gat.built
    /\ gat' = GatApply(GatBuild(gat, Cols(X), seed), X, A, training, dseed)
    /\ UNCHANGED <<flt, gc, agg, gru, lstm, tlstm, gcrn, resid>>

\* A later call.
GatCall(X, A, training, dseed) ==
    /\ gat.phase = "ready"
    /\ gat.built
    /\ gat' = GatApply(gat, X, A, training, dseed)
    /\ UNCHANGED <<flt, gc, agg, gru, lstm, tlstm, gcrn, resid>>

\* The caller takes the output of the last call.
GatRelease ==
    /\ gat.phase = "returned"
    /\ gat' = [gat EXCEPT !.phase = "ready", !.X = <<>>, !.A = <<>>,
                          !.training = FALSE, !.dseed = 0,
                          !.heads = <<>>, !.out = <<>>]
    /\ UNCHANGED <<flt, gc, agg, gru, lstm, tlstm, gcrn, resid>>

DropSeeds(training) == IF training THEN 0..MaxDropSeed ELSE {0}

InitGAT ==
    gat \in GatLayers /\ flt = FilterNew /\ gc = GcIdle /\ CellsIdle /\ AuxIdle

NextGAT ==
    \/ \E n \in 1..MaxN, f \in 1..MaxF, xs \in 0..MaxXSeed, seed \in 0..MaxSeed,
          training \in BOOLEAN :
          \E A \in Adjacencies(n), dseed \in DropSeeds(training) :
             GatFirstCall(DrawMatrix(xs, n, f), A, training, dseed, seed)
    \/ \E n \in 1..MaxN, xs \in 0..MaxXSeed, training \in BOOLEAN :
          \E A \in Adjacencies(n), dseed \in DropSeeds(training) :
             GatCall(DrawMatrix(xs, n, Rows(gat.kernels[1])), A, training, dseed)
    \/ GatRelease

SpecGAT == InitGAT /\ [][NextGAT]_vars

(***************************************************************************)
(* Claims about GraphAttention.                                            *)
(***************************************************************************)
GatN == Rows(gat.X)

\* Approximately zero: at most one unit of the grid.
ApproxZero(w) == Abs(w) <= 1

\* C1 as claimed: for every head, whatever the rows of the 0/1 adjacency A,
\* the softmax attention weight from i to j is approximately zero for every
\* pair of distinct nodes i, j with A[i][j] = 0.
C1_Claim ==
    gat.phase = "returned" =>
        \A h \in 1..Len(gat.heads) : \A i \in 1..GatN : \A j \in 1..GatN :
            (i # j /\ gat.A[i][j] = 0) => ApproxZero(gat.heads[h].attn[i][j])

\* The same for the rows of A that hold at least one edge.
C1_RowsWithAnEdge ==
    gat.phase = "returned" =>
        \A h \in 1..Len(gat.heads) : \A i \in 1..GatN : \A j \in 1..GatN :
            (gat.A[i][j] = 0 /\ \E k \in 1..GatN : gat.A[i][k] = Q)
                => ApproxZero(gat.heads[h].attn[i][j])

Count(x, seq) == Cardinality({k \in 1..Len(seq) : seq[k] = x})

\* C2: for every head each row of the softmax attention matrix sums to 1
\* (to within the rounding of its N entries), whatever the features and
\* the adjacency; the mask is added once and one softmax follows it.
C2_RowSums ==
    gat.phase = "returned" =>
        \A h \in 1..Len(gat.heads) :
            /\ \A i \in 1..GatN : Abs(FSum(gat.heads[h].attn[i]) - Q) <= GatN
            /\ Count("mask", gat.heads[h].stages) = 1
            /\ Count("softmax", gat.heads[h].stages) = 1
            /\ \E k \in 1..(Len(gat.heads[h].stages) - 1) :
                 /\ gat.heads[h].stages[k] = "mask"
                 /\ gat.heads[h].stages[k + 1] = "softmax"

C2_Witness ==
    /\ gat.phase = "returned"
    /\ GatN = 2
    /\ gat.attn_heads = 2
    /\ \E i \in 1..2 : gat.A[i][1] = Q /\ gat.A[i][2] = Q
                       /\ gat.heads[2].attn[i][1] # gat.heads[2].attn[i][2]
    /\ \E i \in 1..2 : gat.A[i][1] = 0 /\ gat.A[i][2] = 0

\* C3: the output has N rows, and U * heads columns when the reduction is
\* 'concat', U columns when it is 'mean'.
C3_OutputWidth ==
    gat.phase = "returned" =>
        /\ Rows(gat.out) = GatN
        /\ \A i \in 1..GatN :
             Len(gat.out[i]) = IF gat.attn_heads_reduction = "concat"
                               THEN gat.feature_size * gat.attn_heads
                               ELSE gat.feature_size

C3_Witness ==
    /\ gat.phase = "returned"
    /\ gat.attn_heads_reduction = "concat"
    /\ gat.attn_heads = 2
    /\ gat.feature_size = 2
    /\ GatN = 2
    /\ Len(gat.out[1]) = 4

(***************************************************************************)
(* Claims about GCNFilter.                                                 *)
(***************************************************************************)
FilterN == Rows(flt.inputs)

IsSquare(M, n) == Rows(M) = n /\ \A i \in 1..Rows(M) : Len(M[i]) = n

\* C4: construction is rejected exactly when mode is localpool and
\* support < 1, or mode is chebyshev and support < 2; a rejected filter is
\* never built and never returns anything.
C4_Rejection ==
    /\ flt.phase # "new" =>
         ((flt.phase = "rejected") <=>
            \/ flt.mode = "localpool" /\ flt.support < 1
            \/ flt.mode = "chebyshev" /\ flt.support < 2)
    /\ flt.phase = "rejected" => ~flt.built /\ flt.out = <<>>

C4_Witness ==
    \/ flt.phase = "rejected" /\ flt.mode = "chebyshev" /\ flt.support = 1
    \/ flt.phase = "rejected" /\ flt.mode = "localpool" /\ flt.support = 0

\* C5 as claimed: the tensor returned by call is a stack of exactly
\* `support` matrices, each N x N.
C5_Original ==
    flt.phase = "returned" =>
        /\ Len(flt.out) = flt.support
        /\ \A k \in 1..Len(flt.out) : IsSquare(flt.out[k], FilterN)

\* C5 as amended: localpool returns one matrix, N x N, whatever the support;
\* chebyshev returns support + 1 matrices, each of the size recorded at
\* build (N x N for an adjacency of that size).
C5_StackSize ==
    flt.phase = "returned" =>
        /\ flt.process = "_localpool" =>
             /\ Len(flt.out) = 1
             /\ IsSquare(flt.out[1], FilterN)
        /\ flt.process = "_chebyshev" =>
             /\ Len(flt.out) = flt.support + 1
             /\ \A k \in 1..Len(flt.out) : IsSquare(flt.out[k], flt.shape)

C5_Witness ==
    /\ flt.phase = "returned"
    /\ flt.process = "_chebyshev"
    /\ flt.support = 3
    /\ FilterN = 2
    /\ Len(flt.out) = 4

ConventionInvSqrt(A) ==
    Diag([i \in 1..Rows(A) |->
            IF RowSums(A)[i] = 0 THEN 0 ELSE PowNegHalf(RowSums(A)[i])])

ConventionNormalized(A) ==
    MatMul(MatMul(ConventionInvSqrt(A), Transpose(A)), ConventionInvSqrt(A))

IsSymmetric(M) ==
    \A i \in 1..Rows(M) : \A j \in 1..Rows(M) : M[i][j] # NaN /\ M[i][j] = M[j][i]

\* C7 as claimed: localpool returns one matrix M = D^(-1/2) A^T D^(-1/2),
\* and M is symmetric whenever A is.
C7_Claim ==
    (flt.phase = "returned" /\ flt.process = "_localpool") =>
        /\ Len(flt.out) = 1
        /\ flt.out[1] = ConventionNormalized(flt.inputs)
        /\ IsSymmetric(flt.inputs) => IsSymmetric(flt.out[1])

HasZeroDegree(A) == \E i \in 1..Rows(A) : RowSums(A)[i] = 0

\* C8 as claimed: for an adjacency with a zero-degree node i the D^(-1/2)
\* entry of i is 0 and the returned filter holds no inf and no NaN.
C8_Claim ==
    (flt.phase = "returned" /\ HasZeroDegree(flt.inputs)) =>
        /\ \A i \in 1..FilterN :
             RowSums(flt.inputs)[i] = 0 => DegreeInvSqrt(flt.inputs)[i][i] = 0
        /\ \A k \in 1..Len(flt.out) : AllFinite(flt.out[k])

(***************************************************************************)
(* Claims about GraphConvolution.                                          *)
(***************************************************************************)
\* C9: with features N x F and a basis of S matrices N x N the kernel has
\* F*S rows and U columns, S being the basis's leading dimension; call
\* returns the N x U matrix activation(C * kernel + bias), where C is
\* N x (F*S) and its column block s equals basis[s] * features.
C9_Convolution ==
    gc.phase = "returned" =>
        LET X == gc.last.features
            B == gc.last.basis
            C == gc.last.concat
            N == Rows(X)
            F == Cols(X)
            S == Len(B)
            prod == MatMul(C, gc.kernel)
        IN  /\ gc.support = S
            /\ Rows(gc.kernel) = F * S
            /\ \A r \in 1..Rows(gc.kernel) : Len(gc.kernel[r]) = gc.units
            /\ Rows(C) = N
            /\ \A n \in 1..N : Len(C[n]) = F * S
            /\ \A s \in 1..S : \A n \in 1..N : \A f \in 1..F :
                 C[n][(s - 1) * F + f] = MatMul(B[s], X)[n][f]
            /\ Rows(gc.last.out) = N
            /\ \A n \in 1..N : Len(gc.last.out[n]) = gc.units
            /\ gc.last.out =
                 Activate(gc.activation,
                          IF gc.use_bias THEN BiasAdd(prod, gc.bias) ELSE prod)

C9_Witness ==
    /\ gc.phase = "returned"
    /\ Len(gc.last.basis) = 2
    /\ Cols(gc.last.features) = 2
    /\ Rows(gc.last.features) = 2
    /\ gc.units = 2
    /\ gc.use_bias
    /\ MatMul(gc.last.basis[1], gc.last.features)
         # MatMul(gc.last.basis[2], gc.last.features)
    /\ \E n \in 1..2 : \E u \in 1..2 : gc.last.out[n][u] # 0

MaxNeigh == 2      \* neighbour samples per node: 0..MaxNeigh

\* tf.reduce_mean(neigh_vec, axis=1): the sum over the samples divided by
\* their number; over no sample it is 0/0.
ReduceMeanAxis1(neigh_vec, samples, embed) ==
    [b \in 1..Len(neigh_vec) |->
        [e \in 1..embed |->
            FDiv(FSum([k \in 1..samples |-> neigh_vec[b][k][e]]), samples * Q)]]

\* MeanAggregator.__init__: the layers a caller may construct.
AggLayers ==
    { [phase |-> "ready", unit |-> u, activation |-> "elu", concat |-> c,
       dropout_prob |-> 300, use_bias |-> ub, bias_initializer |-> "zeros",
       built |-> FALSE, neigh_weights |-> <<>>, self_weights |-> <<>>, biases |-> <<>>,
       self_vec |-> <<>>, neigh_vec |-> <<>>, samples |-> 0,
       neigh_means |-> <<>>, out |-> <<>>] :
      u \in 1..MaxU, c \in BOOLEAN, ub \in BOOLEAN }

\* MeanAggregator.build(input_shape)
AggBuild(layer, self_unit, neigh_unit, seed) ==
    [layer EXCEPT
       !.built = TRUE,
       !.neigh_weights = DrawMatrix(seed, neigh_unit, layer.unit),
       !.self_weights = DrawMatrix(seed + 1, self_unit, layer.unit),
       !.biases = IF ~layer.use_bias THEN <<>>
                  ELSE InitVector(layer.bias_initializer, seed,
                                  IF layer.concat THEN 2 * layer.unit ELSE layer.unit)]

\* tf.add_n([A, B])
AddN(A, B) == [i \in 1..Rows(A) |-> [j \in 1..Cols(A) |-> FAdd(A[i][j], B[i][j])]]

\* MeanAggregator.call(inputs) on a built layer; neigh_vec has the shape
\* batch x samples x embed.
AggApply(layer, self_vec, neigh_vec, samples, embed, training, dseed) ==
    LET self_d == Dropout(layer.dropout_prob, training, dseed, 0, self_vec)
        neigh_d == [b \in 1..Len(neigh_vec) |->
                      Dropout(layer.dropout_prob, training, dseed, b, neigh_vec[b])]
        neigh_means == ReduceMeanAxis1(neigh_d, samples, embed)
        from_neighs == MatMul(neigh_means, layer.neigh_weights)
        from_self == MatMul(self_d, layer.self_weights)
        output == IF ~layer.concat THEN AddN(from_self, from_neighs)
                  ELSE ConcatCols(<<from_self, from_neighs>>)
        biased == IF layer.use_bias THEN BiasAdd(output, layer.biases) ELSE output
    IN  [layer EXCEPT
           !.phase = "returned", !.self_vec = self_vec, !.neigh_vec = neigh_vec,
           !.samples = samples, !.neigh_means = neigh_means,
           !.out = Activate(layer.activation, biased)]

\* The neighbour tensors a caller may hand over.
DrawNeigh(xs, batch, samples, embed) ==
    [b \in 1..batch |-> DrawMatrix(xs + b, samples, embed)]

\* The first call of a layer: build, then call.
AggFirstCall(batch, samples, embed, xs, training, dseed, seed) ==
    /\ agg.phase = "ready"
    /\ ~agg.built
    /\ agg' = AggApply(AggBuild(agg, embed, embed, seed), DrawMatrix(xs, batch, embed),
                       DrawNeigh(xs, batch, samples, embed), samples, embed,
                       training, dseed)
    /\ UNCHANGED <<flt, gc, gat, gru, lstm, tlstm, gcrn, resid>>

\* A later call.
AggCall(batch, samples, xs, training, dseed) ==
    /\ agg.phase = "ready"
    /\ agg.built
    /\ LET embed == Rows(agg.self_weights)
       IN  agg' = AggApply(agg, DrawMatrix(xs, batch, embed),
                           DrawNeigh(xs, batch, samples, embed), samples, embed,
                           training, dseed)
    /\ UNCHANGED <<flt, gc, gat, gru, lstm, tlstm, gcrn, resid>>

\* The caller takes the output of the last call.
AggRelease ==
    /\ agg.phase = "returned"
    /\ agg' = [agg EXCEPT !.phase = "ready", !.self_vec = <<>>, !.neigh_vec = <<>>,
                          !.samples = 0, !.neigh_means = <<>>, !.out = <<>>]
    /\ UNCHANGED <<flt, gc, gat, gru, lstm, tlstm, gcrn, resid>>

InitAgg ==
    agg \in AggLayers /\ flt = FilterNew /\ gc = GcIdle /\ gat = GatIdle
    /\ CellsIdle /\ resid = Idle

NextAgg ==
    \/ \E batch \in 1..MaxN, samples \in 0..MaxNeigh, embed \in 1..MaxF,
          xs \in 0..MaxXSeed, seed \in 0..MaxSeed, training \in BOOLEAN :
          \E dseed \in DropSeeds(training) :
             AggFirstCall(batch, samples, embed, xs, training, dseed, seed)
    \/ \E batch \in 1..MaxN, samples \in 0..MaxNeigh, xs \in 0..MaxXSeed,
          training \in BOOLEAN :
          \E dseed \in DropSeeds(training) :
             AggCall(batch, samples, xs, training, dseed)
    \/ AggRelease

SpecAgg == InitAgg /\ [][NextAgg]_vars

(***************************************************************************)
(* Claims about MeanAggregator.                                            *)
(***************************************************************************)
\* C11: when a call is given no neighbour sample, the neighbour aggregate
\* is the zero vector for every node and the output holds no NaN (nor inf).
C11_Claim ==
    (agg.phase = "returned" /\ agg.samples = 0) =>
        /\ \A b \in 1..Rows(agg.neigh_means) :
              \A e \in 1..Cols(agg.neigh_means) : agg.neigh_means[b][e] = 0
        /\ AllFinite(agg.out)

\* With at least one sample the call returns finite values.
C11_WithSamples ==
    (agg.phase = "returned" /\ agg.samples > 0) => AllFinite(agg.out)

(***************************************************************************)
(* GRUCell.  The cell is called with the step's input and the state the    *)
(* caller carries; the Dropout layers of a call are numbered from site, in *)
(* the order the call creates them.                                        *)
(***************************************************************************)
\* The gates with the roles of z swapped: z keeps the candidate out and the
\* previous state in when it is 1.
GatedUpdateSwapped(cell, input_at_t, state_at_t, training, dseed, site) ==
    LET zt == Dropout(cell.recurrent_dropout_prob, training, dseed, site,
                 Activate(cell.recurrent_activation,
                    BiasAdd(Plus(MatMul(input_at_t, cell.Wz),
                                 MatMul(state_at_t, cell.Uz)), cell.bz)))
        rt == Dropout(cell.recurrent_dropout_prob, training, dseed, site + 1,
                 Activate(cell.recurrent_activation,
                    BiasAdd(Plus(MatMul(input_at_t, cell.Wr),
                                 MatMul(state_at_t, cell.Ur)), cell.br)))
        ht_ == Dropout(cell.recurrent_dropout_prob, training, dseed, site + 2,
                 Activate(cell.recurrent_activation,
                    BiasAdd(Plus(MatMul(input_at_t, cell.Wh),
                                 MatMul(Times(state_at_t, rt), cell.Uh)), cell.bh)))
        ht == Plus(Times(zt, state_at_t), Times(OneMinus(zt), ht_))
    IN  [zt |-> zt, rt |-> rt, ht_ |-> ht_,
         ht |-> Dropout(cell.dropout_prob, training, dseed, site + 3, ht)]

\* Lines 403-413 (and, with the same statements, 609-619): the gates z and
\* r, the candidate and the new state, from the input and the state as the
\* call has them after its first Dropout layers.
GatedUpdate(cell, input_at_t, state_at_t, training, dseed, site) ==
    LET zt == Dropout(cell.recurrent_dropout_prob, training, dseed, site,
                 Activate(cell.recurrent_activation,
                    BiasAdd(Plus(MatMul(input_at_t, cell.Wz),
                                 MatMul(state_at_t, cell.Uz)), cell.bz)))
        rt == Dropout(cell.recurrent_dropout_prob, training, dseed, site + 1,
                 Activate(cell.recurrent_activation,
                    BiasAdd(Plus(MatMul(input_at_t, cell.Wr),
                                 MatMul(state_at_t, cell.Ur)), cell.br)))
        ht_ == Dropout(cell.recurrent_dropout_prob, training, dseed, site + 2,
                 Activate(cell.recurrent_activation,
                    BiasAdd(Plus(MatMul(input_at_t, cell.Wh),
                                 MatMul(Times(state_at_t, rt), cell.Uh)), cell.bh)))
        ht == Plus(Times(OneMinus(zt), state_at_t), Times(zt, ht_))
    IN  [zt |-> zt, rt |-> rt, ht_ |-> ht_,
         ht |-> Dropout(cell.dropout_prob, training, dseed, site + 3, ht)]

\* GRUCell.__init__: the cells a caller may construct.
GruCells ==
    { [phase |-> "ready", units |-> u, activation |-> "tanh",
       recurrent_activation |-> ra, dropout_prob |-> 300,
       recurrent_dropout_prob |-> 300, bias_initializer |-> bi, built |-> FALSE,
       Wz |-> <<>>, Uz |-> <<>>, bz |-> <<>>, Wr |-> <<>>, Ur |-> <<>>, br |-> <<>>,
       Wh |-> <<>>, Uh |-> <<>>, bh |-> <<>>,
       input |-> <<>>, prev |-> <<>>, training |-> FALSE,
       zt |-> <<>>, rt |-> <<>>, output |-> <<>>, state |-> <<>>] :
      u \in 1..MaxU, ra \in {"sigmoid", "relu"}, bi \in {"ones", "zeros"} }

\* GRUCell.build(input_shape): nine weights.
GruBuild(cell, embed, seed) ==
    [cell EXCEPT
       !.built = TRUE,
       !.Wz = DrawMatrix(seed, embed, cell.units),
       !.Uz = DrawMatrix(seed + 1, cell.units, cell.units),
       !.bz = InitVector(cell.bias_initializer, seed, cell.units),
       !.Wr = DrawMatrix(seed + 2, embed, cell.units),
       !.Ur = DrawMatrix(seed + 3, cell.units, cell.units),
       !.br = InitVector(cell.bias_initializer, seed, cell.units),
       !.Wh = DrawMatrix(seed + 4, embed, cell.units),
       !.Uh = DrawMatrix(seed + 5, cell.units, cell.units),
       !.bh = InitVector(cell.bias_initializer, seed, cell.units)]

\* GRUCell.call(input_at_t, states_at_t) on a built cell; prev is
\* states_at_t[0].
GruApply(cell, input, prev, training, dseed) ==
    LET state_at_t == Dropout(cell.dropout_prob, training, dseed, 0, prev)
        input_at_t == Dropout(cell.dropout_prob, training, dseed, 1, input)
        g == GatedUpdate(cell, input_at_t, state_at_t, training, dseed, 2)
    IN  [cell EXCEPT
           !.phase = "returned", !.input = input, !.prev = prev,
           !.training = training, !.zt = g.zt, !.rt = g.rt,
           !.output = g.ht, !.state = g.ht]

\* The first call of a cell: build, then call.
GruFirstCall(input, prev, training, dseed, seed) ==
    /\ gru.phase = "ready"
    /\ ~gru.built
    /\ gru' = GruApply(GruBuild(gru, Cols(input), seed), input, prev, training, dseed)
    /\ UNCHANGED <<flt, gc, gat, agg, lstm, tlstm, gcrn, resid>>

\* A later call.
GruCall(input, prev, training, dseed) ==
    /\ gru.phase = "ready"
    /\ gru.built
    /\ gru' = GruApply(gru, input, prev, training, dseed)
    /\ UNCHANGED <<flt, gc, gat, agg, lstm, tlstm, gcrn, resid>>

\* The caller takes the output and the state of the last call.
GruRelease ==
    /\ gru.phase = "returned"
    /\ gru' = [gru EXCEPT !.phase = "ready", !.input = <<>>, !.prev = <<>>,
                          !.training = FALSE, !.zt = <<>>, !.rt = <<>>,
                          !.output = <<>>, !.state = <<>>]
    /\ UNCHANGED <<flt, gc, gat, agg, lstm, tlstm, gcrn, resid>>

InitGRU ==
    gru \in GruCells /\ flt = FilterNew /\ gc = GcIdle /\ gat = GatIdle
    /\ lstm = Idle /\ tlstm = Idle /\ gcrn = Idle /\ AuxIdle

NextGRU ==
    \/ \E batch \in 1..MaxN, embed \in 1..MaxF, xs \in 0..MaxXSeed, hs \in 0..MaxXSeed,
          seed \in 0..MaxSeed, training \in BOOLEAN :
          \E dseed \in DropSeeds(training) :
             GruFirstCall(DrawMatrix(xs, batch, embed), DrawMatrix(hs, batch, gru.units),
                          training, dseed, seed)
    \/ \E batch \in 1..MaxN, xs \in 0..MaxXSeed, hs \in 0..MaxXSeed,
          training \in BOOLEAN :
          \E dseed \in DropSeeds(training) :
             GruCall(DrawMatrix(xs, batch, Rows(gru.Wz)),
                     DrawMatrix(hs, batch, gru.units), training, dseed)
    \/ GruRelease

SpecGRU == InitGRU /\ [][NextGRU]_vars

(***************************************************************************)
(* Claims about GRUCell.                                                   *)
(***************************************************************************)
\* C12, as stated: whenever the gates z and r of a call are zero in every
\* row and unit, the state the call returns is the state it was given, and
\* the output is the returned state.
C12_Original ==
    (gru.phase = "returned" /\ IsZero(gru.zt) /\ IsZero(gru.rt)) =>
        gru.state = gru.prev /\ gru.output = gru.state

\* C12: in a call whose Dropout layers are inactive (not training), when
\* the gates z and r are zero in every row and unit, the state the call
\* returns is the state it was given, and the output is the returned state.
C12_Identity ==
    (gru.phase = "returned" /\ ~gru.training /\ IsZero(gru.zt) /\ IsZero(gru.rt)) =>
        gru.state = gru.prev /\ gru.output = gru.state

C12_Witness ==
    /\ gru.phase = "returned" /\ ~gru.training
    /\ IsZero(gru.zt) /\ IsZero(gru.rt)
    /\ ~IsZero(gru.prev)
    /\ gru.state = gru.prev

(***************************************************************************)
(* LSTMCell.  The state a caller carries is one matrix of width 2*units:   *)
(* the hidden state in the columns [0, units), the cell state in the       *)
(* columns [units, 2*units).                                               *)
(***************************************************************************)
MaxSteps == 2      \* consecutive steps a caller feeds the returned state to

\* tf.slice(M, [r0, c0], [nr, nc]); begin counts from 0.
SliceOk(M, r0, c0, nr, nc) == r0 + nr <= Rows(M) /\ c0 + nc <= Cols(M)

Slice(M, r0, c0, nr, nc) == [i \in 1..nr |-> [j \in 1..nc |-> M[r0 + i][c0 + j]]]

\* A gate: recurrent_activation(input*W + h*U + b), then Dropout.
Gate(cell, input_at_t, h_at_t, W, U, b, training, dseed, site) ==
    Dropout(cell.recurrent_dropout_prob, training, dseed, site,
        Activate(cell.recurrent_activation,
            BiasAdd(Plus(MatMul(input_at_t, W), MatMul(h_at_t, U)), b)))

\* Lines 465-478: the gates, the new cell state and the new hidden state.
LstmGates(cell, input_at_t, h_at_t, c_at_t, training, dseed, site) ==
    LET ft == Gate(cell, input_at_t, h_at_t, cell.Wf, cell.Uf, cell.bf,
                   training, dseed, site)
        it == Gate(cell, input_at_t, h_at_t, cell.Wi, cell.Ui, cell.bi,
                   training, dseed, site + 1)
        ot == Gate(cell, input_at_t, h_at_t, cell.Wo, cell.Uo, cell.bo,
                   training, dseed, site + 2)
        ct_ == Gate(cell, input_at_t, h_at_t, cell.Wc, cell.Uc, cell.bc,
                    training, dseed, site + 3)
        ct == Plus(Times(ft, c_at_t), Times(it, ct_))
        ht == Times(ot, Activate(cell.activation, ct))
    IN  [ft |-> ft, it |-> it, ot |-> ot, ct_ |-> ct_, ct |-> ct, ht |-> ht]

\* A state laid out as the cell state followed by the hidden state.
LstmStateSwapped(ht, ct) == ConcatCols(<<ct, ht>>)

\* Line 479: tf.concat([ht, ct], axis=-1)
LstmState(ht, ct) == ConcatCols(<<ht, ct>>)

\* LSTMCell.state_size
LstmStateSize(cell) == cell.units * 2

\* The record of a call not made.
LstmNoCall ==
    [input |-> <<>>, prev |-> <<>>, training |-> FALSE, h_at_t |-> <<>>,
     c_at_t |-> <<>>, c_used |-> <<>>, ft |-> <<>>, it |-> <<>>, ot |-> <<>>,
     ct_ |-> <<>>, ct |-> <<>>, output |-> <<>>, state |-> <<>>]

\* LSTMCell.__init__: the cells a caller may construct.
LstmCells ==
    { [phase |-> "ready", units |-> u, activation |-> "tanh",
       recurrent_activation |-> "sigmoid", dropout_prob |-> 300,
       recurrent_dropout_prob |-> 300, bias_initializer |-> bi, built |-> FALSE,
       batch |-> 0, embed_size |-> 0,
       Wf |-> <<>>, Uf |-> <<>>, bf |-> <<>>, Wi |-> <<>>, Ui |-> <<>>, bi |-> <<>>,
       Wo |-> <<>>, Uo |-> <<>>, bo |-> <<>>, Wc |-> <<>>, Uc |-> <<>>, bc |-> <<>>,
       steps |-> 0, before |-> LstmNoCall, last |-> LstmNoCall] :
      u \in 1..MaxU, bi \in {"ones", "zeros"} }

\* LSTMCell.build(input_shape): the batch size, the width, twelve weights.
LstmBuild(cell, batch, width, seed) ==
    [cell EXCEPT
       !.built = TRUE, !.batch = batch, !.embed_size = width,
       !.Wf = DrawMatrix(seed, width, cell.units),
       !.Uf = DrawMatrix(seed + 1, cell.units, cell.units),
       !.bf = InitVector(cell.bias_initializer, seed, cell.units),
       !.Wi = DrawMatrix(seed + 2, width, cell.units),
       !.Ui = DrawMatrix(seed + 3, cell.units, cell.units),
       !.bi = InitVector(cell.bias_initializer, seed, cell.units),
       !.Wo = DrawMatrix(seed + 4, width, cell.units),
       !.Uo = DrawMatrix(seed + 5, cell.units, cell.units),
       !.bo = InitVector(cell.bias_initializer, seed, cell.units),
       !.Wc = DrawMatrix(seed + 6, width, cell.units),
       !.Uc = DrawMatrix(seed + 7, cell.units, cell.units),
       !.bc = InitVector(cell.bias_initializer, seed, cell.units)]

\* LSTMCell.call(input_at_t, states_at_t) on a built cell; prev is
\* states_at_t[0], of the built batch size and of width 2*units.
LstmApply(cell, input, prev, training, dseed) ==
    LET h_at_t == Slice(prev, 0, 0, cell.batch, cell.units)
        c_at_t == Slice(prev, 0, cell.units, cell.batch, cell.units)
        h_d == Dropout(cell.dropout_prob, training, dseed, 0, h_at_t)
        c_d == Dropout(cell.dropout_prob, training, dseed, 1, c_at_t)
        input_at_t == Dropout(cell.dropout_prob, training, dseed, 2, input)
        g == LstmGates(cell, input_at_t, h_d, c_d, training, dseed, 3)
    IN  [cell EXCEPT
           !.phase = "returned", !.steps = cell.steps + 1, !.before = cell.last,
           !.last = [input |-> input, prev |-> prev, training |-> training,
                     h_at_t |-> h_at_t, c_at_t |-> c_at_t, c_used |-> c_d,
                     ft |-> g.ft, it |-> g.it, ot |-> g.ot, ct_ |-> g.ct_,
                     ct |-> g.ct, output |-> g.ht, state |-> LstmState(g.ht, g.ct)]]

\* The first call of a cell: build, then call.
LstmFirstCall(input, prev, training, dseed, seed) ==
    /\ lstm.phase = "ready"
    /\ ~lstm.built
    /\ lstm' = LstmApply(LstmBuild(lstm, Rows(input), Cols(input), seed),
                         input, prev, training, dseed)
    /\ UNCHANGED <<flt, gc, gat, agg, gru, tlstm, gcrn, resid>>

\* A later call with a state the caller supplies.
LstmCall(input, prev, training, dseed) ==
    /\ lstm.phase = "ready"
    /\ lstm.built
    /\ lstm' = LstmApply(lstm, input, prev, training, dseed)
    /\ UNCHANGED <<flt, gc, gat, agg, gru, tlstm, gcrn, resid>>

\* The next step of a sequence: the caller feeds the state the last call
\* returned.
LstmNextStep(input, training, dseed) ==
    /\ lstm.phase = "returned"
    /\ lstm.steps < MaxSteps
    /\ lstm' = LstmApply(lstm, input, lstm.last.state, training, dseed)
    /\ UNCHANGED <<flt, gc, gat, agg, gru, tlstm, gcrn, resid>>

\* The caller ends the sequence.
LstmRelease ==
    /\ lstm.phase = "returned"
    /\ lstm' = [lstm EXCEPT !.phase = "ready", !.steps = 0,
                            !.before = LstmNoCall, !.last = LstmNoCall]
    /\ UNCHANGED <<flt, gc, gat, agg, gru, tlstm, gcrn, resid>>

InitLSTM ==
    lstm \in LstmCells /\ flt = FilterNew /\ gc = GcIdle /\ gat = GatIdle
    /\ gru = Idle /\ tlstm = Idle /\ gcrn = Idle /\ AuxIdle

NextLSTM ==
    \/ \E batch \in 1..MaxN, embed \in 1..MaxF, xs \in 0..MaxXSeed, hs \in 0..MaxXSeed,
          seed \in 0..MaxSeed, training \in BOOLEAN :
          \E dseed \in DropSeeds(training) :
             LstmFirstCall(DrawMatrix(xs, batch, embed),
                           DrawMatrix(hs, batch, 2 * lstm.units), training, dseed, seed)
    \/ \E xs \in 0..MaxXSeed, hs \in 0..MaxXSeed, training \in BOOLEAN :
          \E dseed \in DropSeeds(training) :
             LstmCall(DrawMatrix(xs, lstm.batch, lstm.embed_size),
                      DrawMatrix(hs, lstm.batch, 2 * lstm.units), training, dseed)
    \/ \E xs \in 0..MaxXSeed, training \in BOOLEAN :
          \E dseed \in DropSeeds(training) :
             LstmNextStep(DrawMatrix(xs, lstm.batch, lstm.embed_size), training, dseed)
    \/ LstmRelease

SpecLSTM == InitLSTM /\ [][NextLSTM]_vars

(***************************************************************************)
(* Claims about LSTMCell.                                                  *)
(***************************************************************************)
\* C13: a call returns an output of width units and a state of width
\* 2*units = state_size that is h_next followed by c_next, where
\* c_next = f*c + i*c_candidate (c the cell slice as the call's Dropout
\* layer leaves it; the slice itself when not training) and
\* h_next = o*activation(c_next); when the returned state is fed to the next
\* call, the slices that call takes at the columns [0, U) and [U, 2U) are
\* exactly h_next and c_next.
C13_Layout ==
    lstm.phase = "returned" =>
        LET c == lstm.last
            U == lstm.units
        IN  /\ LstmStateSize(lstm) = 2 * U
            /\ Rows(c.state) = lstm.batch /\ Cols(c.state) = 2 * U
            /\ Rows(c.output) = lstm.batch /\ Cols(c.output) = U
            /\ \A i \in 1..lstm.batch : \A j \in 1..U :
                  /\ c.state[i][j] = c.output[i][j]
                  /\ c.state[i][U + j] = c.ct[i][j]
                  /\ c.ct[i][j] = FAdd(FMul(c.ft[i][j], c.c_used[i][j]),
                                       FMul(c.it[i][j], c.ct_[i][j]))
                  /\ c.output[i][j] =
                        FMul(c.ot[i][j], Activation(lstm.activation, c.ct[i][j]))
            /\ ~c.training => c.c_used = c.c_at_t
            /\ lstm.steps >= 2 =>
                  /\ c.prev = lstm.before.state
                  /\ c.h_at_t = lstm.before.output
                  /\ c.c_at_t = lstm.before.ct

C13_Witness ==
    /\ lstm.phase = "returned" /\ lstm.steps = 2 /\ lstm.units = 2
    /\ lstm.last.h_at_t = lstm.before.output
    /\ lstm.last.c_at_t = lstm.before.ct
    /\ lstm.before.output # lstm.before.ct
    /\ ~IsZero(lstm.before.ct)

(***************************************************************************)
(* TLSTMCell.  The input of a step is the features followed by delta_dim   *)
(* columns of time gaps.  A call that cannot go on ends in phase "raised", *)
(* line telling the statement that raised.                                 *)
(***************************************************************************)
MaxDelta == 2      \* time-gap columns: 1..MaxDelta

\* The natural logarithm of y >= 1: the x in lo..hi at which e^-x meets 1/y,
\* by bisection.
RECURSIVE LnIn(_, _, _)
LnIn(y, lo, hi) ==
    IF hi - lo <= 1 THEN lo
    ELSE LET mid == (lo + hi) \div 2
         IN  IF ExpNeg(0 - mid) >= FDiv(Q, y) THEN LnIn(y, mid, hi) ELSE LnIn(y, lo, mid)

\* tf.log
Ln(y) ==
    IF y = NaN \/ y < 0 THEN NaN
    ELSE IF y = PInf THEN PInf
    ELSE IF y = 0 THEN NInf
    ELSE IF y < Q THEN 0 - LnIn(FDiv(Q, y), 0, 8 * Q)
    ELSE LnIn(y, 0, 8 * Q)

\* The rank of the tensor a Python list of one matrix converts to.
RankOfList(M) == 3

\* tf.slice(T, begin, size) wants begin and size of T's rank.
SliceRankOk(rank, begin, size) == Len(begin) = rank /\ Len(size) = rank

\* TLSTMCell.__init__: the cells a caller may construct.
TlstmCells ==
    { [phase |-> "ready", line |-> 0, units |-> u, delta_dim |-> d,
       activation |-> "tanh", recurrent_activation |-> "sigmoid",
       dropout_prob |-> 300, recurrent_dropout_prob |-> 300,
       bias_initializer |-> bi, built |-> FALSE, batch |-> 0, embed_size |-> 0,
       Wd |-> <<>>, bd |-> <<>>,
       Wf |-> <<>>, Uf |-> <<>>, bf |-> <<>>, Wi |-> <<>>, Ui |-> <<>>, bi |-> <<>>,
       Wo |-> <<>>, Uo |-> <<>>, bo |-> <<>>, Wc |-> <<>>, Uc |-> <<>>, bc |-> <<>>,
       input |-> <<>>, gaps |-> <<>>, prev |-> <<>>, training |-> FALSE,
       output |-> <<>>, state |-> <<>>] :
      u \in 1..MaxU, d \in 1..MaxDelta, bi \in {"ones"} }

\* TLSTMCell.build(input_shape).  Line 510 hands add_weight the recurrent
\* activation as the initializer of Wd; an activation is a function of a
\* tensor, not of a shape and a dtype, and whether the call of add_weight
\* goes through is the tensor library's matter: accepted tells it.  A build
\* that raises there has set batch and embed_size and created no weight.
TlstmBuild(cell, batch, width, seed, accepted) ==
    IF ~accepted
    THEN [cell EXCEPT !.phase = "raised", !.line = 510,
                      !.batch = batch, !.embed_size = width - 1]
    ELSE [cell EXCEPT
            !.built = TRUE, !.batch = batch, !.embed_size = width - 1,
            !.Wd = DrawMatrix(seed + 8, cell.units, cell.units),
            !.bd = InitVector(cell.bias_initializer, seed, cell.units),
            !.Wf = DrawMatrix(seed, width, cell.units),
            !.Uf = DrawMatrix(seed + 1, cell.units, cell.units),
            !.bf = InitVector(cell.bias_initializer, seed, cell.units),
            !.Wi = DrawMatrix(seed + 2, width, cell.units),
            !.Ui = DrawMatrix(seed + 3, cell.units, cell.units),
            !.bi = InitVector(cell.bias_initializer, seed, cell.units),
            !.Wo = DrawMatrix(seed + 4, width, cell.units),
            !.Uo = DrawMatrix(seed + 5, cell.units, cell.units),
            !.bo = InitVector(cell.bias_initializer, seed, cell.units),
            !.Wc = DrawMatrix(seed + 6, width, cell.units),
            !.Uc = DrawMatrix(seed + 7, cell.units, cell.units),
            !.bc = InitVector(cell.bias_initializer, seed, cell.units)]

\* Lines 535-538: the cell state with its short-term part decayed by the
\* time gap.
TlstmDecay(cell, c_at_t, delta_t) ==
    LET cs == Activate(cell.activation, BiasAdd(MatMul(c_at_t, cell.Wd), cell.bd))
        divisor == [i \in 1..Rows(delta_t) |->
                      [j \in 1..Cols(delta_t) |-> Ln(FAdd(2718, delta_t[i][j]))]]
        factor == [i \in 1..Rows(delta_t) |->
                     [j \in 1..Cols(delta_t) |-> FDiv(Q, divisor[i][j])]]
        cs_ == Times(cs, factor)
        ct == [i \in 1..Rows(c_at_t) |->
                 [j \in 1..Cols(c_at_t) |-> FSub(c_at_t[i][j], cs[i][j])]]
    IN  Plus(ct, cs_)

\* TLSTMCell.call(input_at_t, states_at_t) on a built cell, statement by
\* statement up to the first one that raises.
TlstmApply(cell, input, prev, training, dseed) ==
    LET called == [cell EXCEPT !.input = input, !.prev = prev, !.training = training,
                               !.gaps = IF Cols(input) >= cell.delta_dim
                                        THEN Slice(input, 0, Cols(input) - cell.delta_dim,
                                                   Rows(input), cell.delta_dim)
                                        ELSE <<>>]
        Raise(n) == [called EXCEPT !.phase = "raised", !.line = n]
    IN  IF ~SliceOk(prev, 0, 0, cell.batch, cell.units) THEN Raise(528)
        ELSE IF ~SliceOk(prev, 0, cell.units, cell.batch, cell.units) THEN Raise(529)
        ELSE IF ~SliceOk(input, 0, cell.embed_size, cell.batch, cell.delta_dim)
             THEN Raise(532)
        ELSE IF ~SliceRankOk(RankOfList(input), <<0, 0>>, <<cell.batch, cell.embed_size>>)
             THEN Raise(533)
        ELSE IF ~Compatible(Zeros(cell.batch, cell.units),
                            Zeros(cell.batch, cell.delta_dim))
             THEN Raise(536)
        ELSE IF cell.embed_size # Rows(cell.Wf) THEN Raise(540)
        ELSE
          LET h_d == Dropout(cell.dropout_prob, training, dseed, 0,
                             Slice(prev, 0, 0, cell.batch, cell.units))
              c_d == Dropout(cell.dropout_prob, training, dseed, 1,
                             Slice(prev, 0, cell.units, cell.batch, cell.units))
              delta_t == Slice(input, 0, cell.embed_size, cell.batch, cell.delta_dim)
              input_at_t == Dropout(cell.dropout_prob, training, dseed, 2,
                                    Slice(input, 0, 0, cell.batch, cell.embed_size))
              g == LstmGates(cell, input_at_t, h_d, TlstmDecay(cell, c_d, delta_t),
                             training, dseed, 3)
          IN  [called EXCEPT !.phase = "returned", !.output = g.ht,
                             !.state = LstmState(g.ht, g.ct)]

\* One step of an LSTMCell that is handed the same sequence, its time gaps
\* left out: build on the first step, then call.
LstmTwin(cell, features, prev, training, dseed, seed) ==
    LstmApply(IF cell.built THEN cell
              ELSE LstmBuild(cell, Rows(features), Cols(features), seed),
              features, prev, training, dseed)

\* The first call of a TLSTMCell: build, then, if build returned, call.
TlstmFirstCall(features, gaps, prev, training, dseed, seed, accepted) ==
    /\ tlstm.phase = "ready"
    /\ ~tlstm.built
    /\ lstm.built => Rows(features) = lstm.batch /\ Cols(features) = lstm.embed_size
    /\ LET input == ConcatCols(<<features, gaps>>)
           built == TlstmBuild(tlstm, Rows(input), Cols(input), seed, accepted)
       IN  tlstm' = IF built.phase = "raised"
                    THEN [built EXCEPT !.input = input, !.gaps = gaps, !.prev = prev,
                                       !.training = training]
                    ELSE TlstmApply(built, input, prev, training, dseed)
    /\ lstm' = LstmTwin(lstm, features, prev, training, dseed, seed)
    /\ UNCHANGED <<flt, gc, gat, agg, gru, gcrn, resid>>

\* A later call.
TlstmCall(features, gaps, prev, training, dseed) ==
    /\ tlstm.phase = "ready"
    /\ tlstm.built
    /\ tlstm' = TlstmApply(tlstm, ConcatCols(<<features, gaps>>), prev, training, dseed)
    /\ lstm' = LstmTwin(lstm, features, prev, training, dseed, 0)
    /\ UNCHANGED <<flt, gc, gat, agg, gru, gcrn, resid>>

\* The caller takes what the last call left.
TlstmRelease ==
    /\ tlstm.phase \in {"returned", "raised"}
    /\ tlstm' = [tlstm EXCEPT !.phase = "ready", !.line = 0, !.input = <<>>,
                              !.gaps = <<>>, !.prev = <<>>, !.training = FALSE,
                              !.output = <<>>, !.state = <<>>]
    /\ lstm' = [lstm EXCEPT !.phase = "ready", !.steps = 0,
                            !.before = LstmNoCall, !.last = LstmNoCall]
    /\ UNCHANGED <<flt, gc, gat, agg, gru, gcrn, resid>>

\* The time gaps of a step: all 0, or all 1.
DrawGaps(gs, batch, delta_dim) == [i \in 1..batch |-> [j \in 1..delta_dim |-> gs * Q]]

\* A TLSTMCell and an LSTMCell of the same configuration.
InitTLSTM ==
    /\ tlstm \in TlstmCells
    /\ lstm \in {c \in LstmCells :
                   c.units = tlstm.units /\ c.bias_initializer = tlstm.bias_initializer}
    /\ flt = FilterNew /\ gc = GcIdle /\ gat = GatIdle
    /\ gru = Idle /\ gcrn = Idle /\ AuxIdle

NextTLSTM ==
    \/ \E batch \in 1..MaxN, embed \in 1..MaxF, xs \in 0..MaxXSeed, gs \in 0..1,
          seed \in 0..MaxSeed, training \in BOOLEAN, accepted \in BOOLEAN :
          \E dseed \in DropSeeds(training) :
             TlstmFirstCall(DrawMatrix(xs, batch, embed),
                            DrawGaps(gs, batch, tlstm.delta_dim),
                            DrawMatrix(xs + 1, batch, 2 * tlstm.units),
                            training, dseed, seed, accepted)
    \/ \E xs \in 0..MaxXSeed, gs \in 0..1, training \in BOOLEAN :
          \E dseed \in DropSeeds(training) :
             TlstmCall(DrawMatrix(xs, tlstm.batch, lstm.embed_size),
                       DrawGaps(gs, tlstm.batch, tlstm.delta_dim),
                       DrawMatrix(xs + 1, tlstm.batch, 2 * tlstm.units),
                       training, dseed)
    \/ TlstmRelease

SpecTLSTM == InitTLSTM /\ [][NextTLSTM]_vars

(***************************************************************************)
(* Claims about TLSTMCell.                                                 *)
(***************************************************************************)
\* C14: when a TLSTMCell and an LSTMCell of the same configuration and
\* draws are handed the same features and previous state, not training,
\* and every time gap of the step is 0, TLSTMCell.call returns, and returns
\* the output and the next state that LSTMCell.call returns.
C14_Claim ==
    (/\ tlstm.phase \in {"returned", "raised"}
     /\ tlstm.line # 510
     /\ ~tlstm.training
     /\ IsZero(tlstm.gaps)) =>
        /\ tlstm.phase = "returned"
        /\ tlstm.output = lstm.last.output
        /\ tlstm.state = lstm.last.state

\* Every call of a built TLSTMCell raises, at line 532 or at line 533.
C14_CallRaises ==
    (tlstm.phase \in {"returned", "raised"} /\ tlstm.built) =>
        tlstm.phase = "raised" /\ tlstm.line \in {532, 533}

(***************************************************************************)
(* A further claim about GraphAttention.                                   *)
(***************************************************************************)
\* C19: the output of every head is what the head computes from the layer
\* inputs X and A, its own kernel, attention vectors and bias and its own
\* dropout draws: the pass of the head loop made on X itself, whatever the
\* head's place in the loop.
C19_Claim ==
    gat.phase = "returned" =>
        \A h \in 1..gat.attn_heads :
            LET alone == GatHead(gat, gat.X, gat.A, gat.training, gat.dseed, h)
            IN  /\ gat.heads[h].X = alone.X
                /\ gat.heads[h].output = alone.output

\* When the layer is not training, the claim of C19 holds.
C19_NotTraining ==
    (gat.phase = "returned" /\ ~gat.training) =>
        \A h \in 1..gat.attn_heads :
            gat.heads[h].output =
                GatHead(gat, gat.X, gat.A, gat.training, gat.dseed, h).output

(***************************************************************************)
(* GCRN1Cell and GCRN2Cell.  The input of a step is, for every node, its   *)
(* features followed by its row of the adjacency: N x (embed_size + N).    *)
(* The graph operator of a cell is a GraphAttention or a GraphConvolution  *)
(* layer the cell's build constructs; such a layer builds its weights on   *)
(* its own first call, inside the cell's first call.                       *)
(***************************************************************************)
\* GraphAttention.__init__(feature_size, attn_heads=8, ...)
GatDefaultHeads == 8

\* The parameters of the two constructors.
GatInitArgs ==
    {"feature_size", "attn_heads", "dropout_prob", "activation",
     "attn_heads_reduction", "kernel_initializer", "bias_initializer"}

GcInitArgs ==
    {"units", "activation", "use_bias", "kernel_initializer", "bias_initializer"}

\* The keyword arguments the cells' build hands to the operator's
\* constructor, whichever class it is.
OperatorKwargs == {"kernel_initializer", "dropout_prob", "bias_initializer"}

\* A Python call with a keyword argument the function does not have raises
\* TypeError.
InitAccepts(params, kwargs) == kwargs \subseteq params

\* GraphAttention(units, kernel_initializer=..., dropout_prob=...,
\* bias_initializer=...): the other parameters at their defaults.
NewGraphAttention(units, dropout_prob, bias_initializer) ==
    [phase |-> "ready", feature_size |-> units, attn_heads |-> GatDefaultHeads,
     dropout_prob |-> dropout_prob, activation |-> "elu",
     attn_heads_reduction |-> "mean", bias_initializer |-> bias_initializer,
     built |-> FALSE, kernels |-> <<>>, biases |-> <<>>, attn_kernels |-> <<>>,
     X |-> <<>>, A |-> <<>>, training |-> FALSE, dseed |-> 0,
     heads |-> <<>>, out |-> <<>>]

\* GraphConvolution(units, kernel_initializer=..., bias_initializer=...)
NewGraphConvolution(units, bias_initializer) ==
    [phase |-> "ready", units |-> units, use_bias |-> TRUE, activation |-> "relu",
     bias_initializer |-> bias_initializer, built |-> FALSE, support |-> 0,
     kernel |-> <<>>, bias |-> <<>>, last |-> NoCall, again |-> NoCall]

\* GCNFilter(support=support): mode 'localpool'.
NewFilter(support) ==
    [FilterNew EXCEPT !.phase = "ready", !.mode = "localpool",
                      !.process = FilterProcess("localpool"), !.support = support]

\* A layer that does not keep, between two calls, that it was built: its
\* next call builds it again.
LayerAtRestUnbuilt(layer) ==
    [layer EXCEPT !.phase = "ready", !.X = <<>>, !.A = <<>>, !.training = FALSE,
                  !.dseed = 0, !.heads = <<>>, !.out = <<>>, !.built = FALSE]

\* A layer as it stays in the cell between two calls: its weights, without
\* the tensors of the call.
LayerAtRest(layer) ==
    [layer EXCEPT !.phase = "ready", !.X = <<>>, !.A = <<>>, !.training = FALSE,
                  !.dseed = 0, !.heads = <<>>, !.out = <<>>]

\* layer([X, adj]) for the graph operator layer of a cell: the layer builds
\* on its first call.  adj is [rank, val]: the raw adjacency (rank 2) or a
\* filter's stack (rank 3).  The result tells whether the call returned,
\* the layer as the call leaves it, and the output.
GraphOp(operator, layer, X, adj, training, dseed, seed) ==
    IF operator = "GraphAttention"
    THEN IF adj.rank # 2 \/ ~(Rows(adj.val) = Rows(X) \/ Rows(adj.val) = 1)
              \/ (layer.built /\ Cols(X) # Rows(layer.kernels[1]))
         THEN [ok |-> FALSE, layer |-> layer, out |-> <<>>]
         ELSE The({ [ok |-> TRUE, layer |-> LayerAtRest(called), out |-> called.out] :
                    called \in { GatApply(IF layer.built THEN layer
                                          ELSE GatBuild(layer, Cols(X), seed),
                                          X, adj.val, training, dseed) } })
    ELSE IF adj.rank # 3 \/ Rows(adj.val[1]) # Rows(X)
              \/ (layer.built /\ Cols(X) * layer.support # Rows(layer.kernel))
         THEN [ok |-> FALSE, layer |-> layer, out |-> <<>>]
         ELSE The({ [ok |-> TRUE, layer |-> built, out |-> GcApply(built, X, adj.val).out] :
                    built \in { IF layer.built THEN layer
                                ELSE GcBuild(layer, <<Rows(X), Cols(X)>>,
                                             <<Len(adj.val), Rows(X), Rows(X)>>, seed) } })

\* The draw of the Dropout layers of the k-th layer a cell's call calls.
SubDraw(dseed, k) == IF dseed = 0 THEN 0 ELSE dseed + k

GcrnModes == {"gat", "gcn", "chebyshev"}

\* GCRN1Cell.__init__, GCRN2Cell.__init__: the cells a caller may construct.
GcrnCells ==
    { [phase |-> "ready", line |-> 0, class |-> cl, units |-> u, mode |-> m,
       support |-> 2, recurrent_activation |-> "sigmoid", dropout_prob |-> 300,
       recurrent_dropout_prob |-> 300, bias_initializer |-> "ones",
       built |-> FALSE, node_size |-> 0, embed_size |-> 0,
       operator |-> "", filter |-> Idle, model |-> Idle,
       Wz |-> <<>>, Uz |-> <<>>, bz |-> <<>>, Wr |-> <<>>, Ur |-> <<>>, br |-> <<>>,
       Wh |-> <<>>, Uh |-> <<>>, bh |-> <<>>,
       steps |-> 0, input |-> <<>>, prev |-> <<>>, training |-> FALSE, dseed |-> 0,
       filtered |-> FALSE, ops |-> <<>>, zt |-> <<>>, rt |-> <<>>,
       output |-> <<>>, state |-> <<>>] :
      cl \in {"GCRN1Cell", "GCRN2Cell"}, u \in 1..MaxU, m \in GcrnModes }

\* Lines 583-591 and 649-655: the sizes, the class of the graph operator.
GcrnOperator(mode) == IF mode = "gat" THEN "GraphAttention" ELSE "GraphConvolution"

\* Whether the constructor call of the operator goes through.
OperatorAccepted(operator) ==
    InitAccepts(IF operator = "GraphAttention" THEN GatInitArgs ELSE GcInitArgs,
                OperatorKwargs)

NewOperator(cell, operator, dropout_prob) ==
    IF operator = "GraphAttention"
    THEN NewGraphAttention(cell.units, dropout_prob, cell.bias_initializer)
    ELSE NewGraphConvolution(cell.units, cell.bias_initializer)

\* GCRN1Cell.build(input_shape), input_shape = (N, width).
Gcrn1Build(cell, N, width, seed) ==
    LET operator == GcrnOperator(cell.mode)
        sized == [cell EXCEPT !.node_size = N, !.embed_size = width - N,
                              !.operator = operator]
    IN  IF ~OperatorAccepted(operator)
        THEN [sized EXCEPT !.phase = "raised", !.line = 589]
        ELSE [sized EXCEPT
                !.built = TRUE,
                !.model = NewOperator(cell, operator, cell.dropout_prob),
                !.filter = IF operator = "GraphConvolution"
                           THEN NewFilter(cell.support) ELSE Idle,
                !.Wz = DrawMatrix(seed, cell.units, cell.units),
                !.Uz = DrawMatrix(seed + 1, cell.units, cell.units),
                !.bz = InitVector(cell.bias_initializer, seed, cell.units),
                !.Wr = DrawMatrix(seed + 2, cell.units, cell.units),
                !.Ur = DrawMatrix(seed + 3, cell.units, cell.units),
                !.br = InitVector(cell.bias_initializer, seed, cell.units),
                !.Wh = DrawMatrix(seed + 4, cell.units, cell.units),
                !.Uh = DrawMatrix(seed + 5, cell.units, cell.units),
                !.bh = InitVector(cell.bias_initializer, seed, cell.units)]

\* GCRN2Cell.build(input_shape): six operator layers, no weight of its own.
Gcrn2Build(cell, N, width, seed) ==
    LET operator == GcrnOperator(cell.mode)
        sized == [cell EXCEPT !.node_size = N, !.embed_size = width - N,
                              !.operator = operator]
    IN  IF ~OperatorAccepted(operator)
        THEN [sized EXCEPT !.phase = "raised", !.line = 656]
        ELSE [sized EXCEPT
                !.built = TRUE,
                !.filter = IF operator = "GraphConvolution"
                           THEN NewFilter(cell.support) ELSE Idle,
                !.Wz = NewOperator(cell, operator, cell.dropout_prob),
                !.Uz = NewOperator(cell, operator, cell.recurrent_dropout_prob),
                !.Wr = NewOperator(cell, operator, cell.dropout_prob),
                !.Ur = NewOperator(cell, operator, cell.recurrent_dropout_prob),
                !.Wh = NewOperator(cell, operator, cell.dropout_prob),
                !.Uh = NewOperator(cell, operator, cell.recurrent_dropout_prob)]

\* Lines 604-607 and 674-677: the slices of the input and, in mode "gcn",
\* the filter.  line tells the statement that raised, 0 if none.
GcrnSlices(cell, input, l1, l2, l3) ==
    IF ~SliceOk(input, 0, 0, cell.node_size, cell.embed_size)
    THEN [line |-> l1, x |-> <<>>, adj |-> <<>>, filter |-> cell.filter]
    ELSE IF ~SliceOk(input, 0, cell.embed_size, cell.node_size, cell.node_size)
    THEN [line |-> l2, x |-> <<>>, adj |-> <<>>, filter |-> cell.filter]
    ELSE The({ IF cell.mode # "gcn"
               THEN [line |-> 0, x |-> x, adj |-> [rank |-> 2, val |-> a],
                     filter |-> cell.filter]
               ELSE The({ [line |-> IF res.ok THEN 0 ELSE l3, x |-> x,
                           adj |-> [rank |-> 3, val |-> res.out],
                           filter |-> [cell.filter EXCEPT
                                         !.built = TRUE,
                                         !.shape = IF cell.filter.built
                                                   THEN cell.filter.shape ELSE Cols(a)]] :
                          res \in { FilterCompute(cell.filter, a,
                                                  IF cell.filter.built
                                                  THEN cell.filter.shape ELSE Cols(a)) } }) :
               x \in { Slice(input, 0, 0, cell.node_size, cell.embed_size) },
               a \in { Slice(input, 0, cell.embed_size, cell.node_size,
                             cell.node_size) } })

\* One use of a graph operator, as the call records it.
OpUse(name, X, adj, out) == [layer |-> name, X |-> X, A |-> adj.val, out |-> out]

\* The names of a call, as its statements leave them: the cell, the line of
\* the statement that raised (0 if none), the locals.
GcrnEnter(cell, input, prev, training, dseed, seed, l1, l2, l3) ==
    The({ [cell |-> [cell EXCEPT !.input = input, !.prev = prev,
                                 !.training = training, !.dseed = dseed,
                                 !.steps = cell.steps + 1, !.ops = <<>>,
                                 !.zt = <<>>, !.rt = <<>>, !.output = <<>>,
                                 !.filter = sl.filter,
                                 !.filtered = (sl.line = 0 /\ sl.adj.rank = 3)],
           line |-> sl.line, training |-> training, dseed |-> dseed, seed |-> seed,
           state_at_t |-> Dropout(cell.dropout_prob, training, dseed, 0, prev),
           x_at_t |-> sl.x, adj |-> sl.adj,
           zt |-> <<>>, rt |-> <<>>, ht_ |-> <<>>, ht |-> <<>>] :
          sl \in { GcrnSlices(cell, input, l1, l2, l3) } })

\* The end of a call: the error, or the output and the new state.
GcrnReturn(e) ==
    IF e.line # 0 THEN [e.cell EXCEPT !.phase = "raised", !.line = e.line]
    ELSE [e.cell EXCEPT !.phase = "returned", !.zt = e.zt, !.rt = e.rt,
                        !.output = e.ht, !.state = e.ht]

\* Line 608: input_at_t = self.model([x_at_t, a_at_t])
Gcrn1Model(e) ==
    IF e.line # 0 THEN e
    ELSE The({ IF ~r.ok THEN [e EXCEPT !.line = 608]
               ELSE [e EXCEPT !.x_at_t = r.out, !.cell.model = r.layer,
                              !.cell.ops = <<OpUse("model", e.x_at_t, e.adj, r.out)>>] :
               r \in { GraphOp(e.cell.operator, e.cell.model, e.x_at_t, e.adj,
                               e.training, SubDraw(e.dseed, 1), e.seed + 6) } })

\* Lines 609-619: the gated-recurrent update with the cell's own matrices.
Gcrn1Update(e) ==
    IF e.line # 0 THEN e
    ELSE IF Cols(e.state_at_t) # e.cell.units \/ ~Compatible(e.x_at_t, e.state_at_t)
    THEN [e EXCEPT !.line = 609]
    ELSE The({ [e EXCEPT !.zt = g.zt, !.rt = g.rt, !.ht_ = g.ht_, !.ht = g.ht] :
               g \in { GatedUpdate(e.cell, e.x_at_t, e.state_at_t, e.training,
                                   e.dseed, 1) } })

\* GCRN1Cell.call(input_at_t, states_at_t) on a built cell; prev is
\* states_at_t[0].
Gcrn1Apply(cell, input, prev, training, dseed, seed) ==
    The({ GcrnReturn(e2) :
          e2 \in { Gcrn1Update(e1) :
          e1 \in { Gcrn1Model(e0) :
          e0 \in { GcrnEnter(cell, input, prev, training, dseed, seed,
                             604, 605, 607) } } } })

\* recurrent_activation(W([Xw, a_at_t]) + U([Xu, a_at_t])), then Dropout:
\* a gate of GCRN2Cell, W and U the names of two of its layers.  The result
\* is the names of the call with the layers as the two calls leave them,
\* and the gate.
Gcrn2Gate(e, W, U, Xw, Xu, k, site, line) ==
    The({ IF ~w.ok \/ ~u.ok THEN [env |-> [e EXCEPT !.line = line], gate |-> <<>>]
          ELSE IF ~Compatible(w.out, u.out)
          THEN [env |-> [e EXCEPT !.line = line], gate |-> <<>>]
          ELSE [env |-> [e EXCEPT
                           !.cell = [e.cell EXCEPT
                                       ![W] = w.layer, ![U] = u.layer,
                                       !.ops = e.cell.ops \o <<OpUse(W, Xw, e.adj, w.out),
                                                               OpUse(U, Xu, e.adj, u.out)>>]],
                gate |-> Dropout(e.cell.recurrent_dropout_prob, e.training, e.dseed,
                                 site,
                                 Activate(e.cell.recurrent_activation,
                                          Plus(w.out, u.out)))] :
          w \in { GraphOp(e.cell.operator, e.cell[W], Xw, e.adj, e.training,
                          SubDraw(e.dseed, k), e.seed + 6 * k) },
          u \in { GraphOp(e.cell.operator, e.cell[U], Xu, e.adj, e.training,
                          SubDraw(e.dseed, k + 1), e.seed + 6 * (k + 1)) } })

\* Line 678: x_at_t = Dropout(x_at_t)
Gcrn2DropInput(e) ==
    IF e.line # 0 THEN e
    ELSE [e EXCEPT !.x_at_t = Dropout(e.cell.dropout_prob, e.training, e.dseed, 1,
                                      e.x_at_t)]

\* Lines 679-680: zt
Gcrn2Z(e) ==
    IF e.line # 0 THEN e
    ELSE The({ [g.env EXCEPT !.zt = g.gate] :
               g \in { Gcrn2Gate(e, "Wz", "Uz", e.x_at_t, e.state_at_t, 1, 2, 679) } })

\* Lines 682-683: rt
Gcrn2R(e) ==
    IF e.line # 0 THEN e
    ELSE The({ [g.env EXCEPT !.rt = g.gate] :
               g \in { Gcrn2Gate(e, "Wr", "Ur", e.x_at_t, e.state_at_t, 3, 3, 682) } })

\* A candidate whose Uh is handed the state itself.
Gcrn2ResetStateLost(state_at_t, rt) == state_at_t

\* Line 685: state_at_t * rt, the features handed to Uh.
Gcrn2ResetState(state_at_t, rt) == Times(state_at_t, rt)

\* Lines 685-686: ht_
Gcrn2H(e) ==
    IF e.line # 0 THEN e
    ELSE IF ~Compatible(e.state_at_t, e.rt) THEN [e EXCEPT !.line = 685]
    ELSE The({ [g.env EXCEPT !.ht_ = g.gate] :
               g \in { Gcrn2Gate(e, "Wh", "Uh", e.x_at_t,
                                 Gcrn2ResetState(e.state_at_t, e.rt), 5, 4, 685) } })

\* Lines 688-689: ht
Gcrn2Update(e) ==
    IF e.line # 0 THEN e
    ELSE IF ~Compatible(e.zt, e.state_at_t) \/ ~Compatible(e.zt, e.ht_)
    THEN [e EXCEPT !.line = 688]
    ELSE [e EXCEPT !.ht = Dropout(e.cell.dropout_prob, e.training, e.dseed, 5,
                                  Plus(Times(OneMinus(e.zt), e.state_at_t),
                                       Times(e.zt, e.ht_)))]

\* GCRN2Cell.call(input_at_t, states_at_t) on a built cell.
Gcrn2Apply(cell, input, prev, training, dseed, seed) ==
    The({ GcrnReturn(e5) :
          e5 \in { Gcrn2Update(e4) :
          e4 \in { Gcrn2H(e3) :
          e3 \in { Gcrn2R(e2) :
          e2 \in { Gcrn2Z(e1) :
          e1 \in { Gcrn2DropInput(e0) :
          e0 \in { GcrnEnter(cell, input, prev, training, dseed, seed,
                             674, 675, 677) } } } } } } })

GcrnBuild(cell, N, width, seed) ==
    IF cell.class = "GCRN1Cell" THEN Gcrn1Build(cell, N, width, seed)
    ELSE Gcrn2Build(cell, N, width, seed)

GcrnApply(cell, input, prev, training, dseed, seed) ==
    IF cell.class = "GCRN1Cell" THEN Gcrn1Apply(cell, input, prev, training, dseed, seed)
    ELSE Gcrn2Apply(cell, input, prev, training, dseed, seed)

\* The inputs a caller hands to a step: drawn features of n nodes next to
\* the adjacency of the complete graph with self-loops.
Complete(n) == [i \in 1..n |-> [j \in 1..n |-> Q]]

GcrnInput(xs, n, embed) == ConcatCols(<<DrawMatrix(xs, n, embed), Complete(n)>>)

\* The first call of a cell, at the start of a sequence (the state is the
\* zero state of the input's node count): build, then, if build returned,
\* call.
GcrnFirstCall(input, training, dseed, seed) ==
    /\ gcrn.phase = "ready"
    /\ ~gcrn.built
    /\ LET built == GcrnBuild(gcrn, Rows(input), Cols(input), seed)
       IN  gcrn' = IF built.phase = "raised"
                   THEN [built EXCEPT !.input = input, !.training = training]
                   ELSE GcrnApply(built, input, Zeros(Rows(input), gcrn.units),
                                  training, dseed, seed)
    /\ UNCHANGED <<flt, gc, gat, agg, gru, lstm, tlstm, resid>>

\* The first step of a later sequence.
GcrnCall(input, training, dseed) ==
    /\ gcrn.phase = "ready"
    /\ gcrn.built
    /\ gcrn' = GcrnApply(gcrn, input, Zeros(Rows(input), gcrn.units), training, dseed, 0)
    /\ UNCHANGED <<flt, gc, gat, agg, gru, lstm, tlstm, resid>>

\* The next step of a sequence: the state is the one the last step returned.
GcrnNextStep(input, training, dseed) ==
    /\ gcrn.phase = "returned"
    /\ gcrn.steps < MaxSteps
    /\ gcrn' = GcrnApply(gcrn, input, gcrn.state, training, dseed, 0)
    /\ UNCHANGED <<flt, gc, gat, agg, gru, lstm, tlstm, resid>>

\* The caller ends the sequence, or takes the error.
GcrnRelease ==
    /\ gcrn.phase \in {"returned", "raised"}
    /\ gcrn' = [gcrn EXCEPT !.phase = "ready", !.line = 0, !.steps = 0,
                            !.input = <<>>, !.prev = <<>>, !.training = FALSE,
                            !.dseed = 0, !.filtered = FALSE, !.ops = <<>>, !.zt = <<>>, !.rt = <<>>,
                            !.output = <<>>, !.state = <<>>]
    /\ UNCHANGED <<flt, gc, gat, agg, gru, lstm, tlstm, resid>>

InitGCRN ==
    gcrn \in GcrnCells /\ flt = FilterNew /\ gc = GcIdle /\ gat = GatIdle
    /\ gru = Idle /\ lstm = Idle /\ tlstm = Idle /\ AuxIdle

NextGCRN ==
    \/ \E n \in 1..MaxN, embed \in 1..MaxF, xs \in 0..MaxXSeed, seed \in {0, MaxSeed},
          training \in BOOLEAN :
          \E dseed \in DropSeeds(training) :
             GcrnFirstCall(GcrnInput(xs, n, embed), training, dseed, seed)
    \/ \E n \in 1..MaxN, xs \in 0..MaxXSeed, training \in BOOLEAN :
          \E dseed \in DropSeeds(training) :
             GcrnCall(GcrnInput(xs, n, gcrn.embed_size), training, dseed)
    \/ \E n \in 1..MaxN, xs \in 0..MaxXSeed, training \in BOOLEAN :
          \E dseed \in DropSeeds(training) :
             GcrnNextStep(GcrnInput(xs, n, gcrn.embed_size), training, dseed)
    \/ GcrnRelease

SpecGCRN == InitGCRN /\ [][NextGCRN]_vars

(***************************************************************************)
(* Claims about GCRN1Cell and GCRN2Cell.                                   *)
(***************************************************************************)
\* The features and the adjacency the last step's input holds for the cell.
GcrnFeatures == Slice(gcrn.input, 0, 0, gcrn.node_size, gcrn.embed_size)

GcrnAdjacency == Slice(gcrn.input, 0, gcrn.embed_size, gcrn.node_size, gcrn.node_size)

\* The state the last step computed with: the Dropout layer of lines 603
\* and 673 on the state it was handed.
GcrnStateAtT == Dropout(gcrn.dropout_prob, gcrn.training, gcrn.dseed, 0, gcrn.prev)

\* C15: a step of a built cell whose input has the node count recorded at
\* build returns a state of shape node_size x units, and a step whose input
\* has another node count raises.
C15_Claim ==
    (gcrn.built /\ gcrn.phase \in {"returned", "raised"} /\ gcrn.steps > 0) =>
        IF Rows(gcrn.input) = gcrn.node_size
        THEN gcrn.phase = "returned" =>
                /\ Rows(gcrn.state) = gcrn.node_size
                /\ Cols(gcrn.state) = gcrn.units
                /\ gcrn.output = gcrn.state
        ELSE gcrn.phase = "raised"

\* What of C15 the code keeps: a step handed the node count of build, and
\* a state of that many rows, returns a node_size x units state, and a step
\* handed fewer nodes raises at the first slice.
C15_SameOrFewerNodes ==
    (gcrn.built /\ gcrn.phase \in {"returned", "raised"} /\ gcrn.steps > 0) =>
        /\ (Rows(gcrn.input) = gcrn.node_size /\ Rows(gcrn.prev) = gcrn.node_size) =>
              /\ gcrn.phase = "returned"
              /\ Rows(gcrn.state) = gcrn.node_size
              /\ Cols(gcrn.state) = gcrn.units
        /\ Rows(gcrn.input) < gcrn.node_size =>
              gcrn.phase = "raised" /\ gcrn.line \in {604, 674}

\* C16: a step of GCRN1Cell that returns has used one graph operator, on
\* the input features and the step's adjacency, and its gates and state are
\* the gated update of that operator's output with the cell's own matrices;
\* a step of GCRN2Cell that returns has used six, in the order Wz, Uz, Wr,
\* Ur, Wh, Uh: Wz, Wr, Wh on the input features, Uz, Ur on the previous
\* state, Uh on the previous state times the reset gate, each with the
\* step's adjacency.
C16_Operators ==
    gcrn.phase = "returned" =>
        IF gcrn.class = "GCRN1Cell"
        THEN /\ Len(gcrn.ops) = 1
             /\ gcrn.ops[1].layer = "model"
             /\ gcrn.ops[1].X = GcrnFeatures
             /\ gcrn.ops[1].A = GcrnAdjacency
             /\ LET g == GatedUpdate(gcrn, gcrn.ops[1].out, GcrnStateAtT,
                                     gcrn.training, gcrn.dseed, 1)
                IN  gcrn.zt = g.zt /\ gcrn.rt = g.rt /\ gcrn.state = g.ht
        ELSE LET x_at_t == Dropout(gcrn.dropout_prob, gcrn.training, gcrn.dseed, 1,
                                   GcrnFeatures)
             IN  /\ [k \in 1..Len(gcrn.ops) |-> gcrn.ops[k].layer]
                       = <<"Wz", "Uz", "Wr", "Ur", "Wh", "Uh">>
                 /\ \A k \in {1, 3, 5} : gcrn.ops[k].X = x_at_t
                 /\ \A k \in {2, 4} : gcrn.ops[k].X = GcrnStateAtT
                 /\ gcrn.ops[6].X = Times(GcrnStateAtT, gcrn.rt)
                 /\ \A k \in 1..6 : gcrn.ops[k].A = GcrnAdjacency

\* A second step of a GCRN2Cell has returned, and the reset gate changed
\* the state handed to Uh.
C16_Witness ==
    /\ gcrn.phase = "returned"
    /\ gcrn.class = "GCRN2Cell"
    /\ gcrn.steps = 2
    /\ Len(gcrn.ops) = 6
    /\ gcrn.ops[6].X # gcrn.ops[2].X

\* C20: whatever the mode string, build returns, and a step that reaches
\* the graph operator has put the adjacency through the filter if and only
\* if build selected GraphConvolution.
C20_Claim ==
    gcrn.phase \in {"returned", "raised"} =>
        /\ ~(gcrn.line \in {589, 656})
        /\ (gcrn.built /\ gcrn.steps > 0 /\ ~(gcrn.line \in {604, 605, 674, 675})) =>
              (gcrn.filtered <=> gcrn.operator = "GraphConvolution")

\* The first call of a cell raises in build exactly when mode is not "gat".
C20_BuildRaises ==
    (gcrn.phase \in {"returned", "raised"} /\ gcrn.steps = 0) =>
        /\ gcrn.phase = "raised"
        /\ gcrn.line \in {589, 656}
        /\ gcrn.mode # "gat"

(***************************************************************************)
(* The weights of a cell and of the graph operator layers it owns.         *)
(***************************************************************************)
\* The weights of a GraphAttention layer, as add_weight created them.
GatWeights(layer) ==
    IF layer.built THEN <<layer.kernels, layer.biases, layer.attn_kernels>> ELSE <<>>

\* The trainable weights of a cell: its own and those of its layers.
GcrnWeights(cell) ==
    IF cell.class = "GCRN1Cell"
    THEN <<cell.Wz, cell.Uz, cell.bz, cell.Wr, cell.Ur, cell.br, cell.Wh, cell.Uh,
           cell.bh, GatWeights(cell.model)>>
    ELSE <<GatWeights(cell.Wz), GatWeights(cell.Uz), GatWeights(cell.Wr),
           GatWeights(cell.Ur), GatWeights(cell.Wh), GatWeights(cell.Uh)>>

\* The GraphAttention layers of a cell.
GcrnLayers(cell) ==
    IF cell.class = "GCRN1Cell" THEN {cell.model}
    ELSE {cell.Wz, cell.Uz, cell.Wr, cell.Ur, cell.Wh, cell.Uh}

\* C18: once a cell is built, no step (a call that returns, a call that
\* raises, the end of a sequence) changes a weight of the cell or of a
\* GraphAttention layer it owns, in value, shape or number; and every such
\* layer holds attn_heads kernels, attn_heads biases and attn_heads pairs
\* of attention vectors.
C18_Frame ==
    [][gcrn.built =>
          /\ gcrn'.built
          /\ GcrnWeights(gcrn') = GcrnWeights(gcrn)
          /\ \A layer \in GcrnLayers(gcrn') :
                /\ layer.built
                /\ Len(layer.kernels) = layer.attn_heads
                /\ Len(layer.biases) = layer.attn_heads
                /\ Len(layer.attn_kernels) = layer.attn_heads
                /\ \A h \in 1..layer.attn_heads : Len(layer.attn_kernels[h]) = 2]_vars

\* A built GCRN1Cell has returned from a second step, its GraphAttention
\* layer holding the weights of its heads.
C18_Witness ==
    /\ gcrn.built
    /\ gcrn.class = "GCRN1Cell"
    /\ gcrn.phase = "returned"
    /\ gcrn.steps = 2
    /\ Len(gcrn.model.kernels) = GatDefaultHeads
    /\ Rows(gcrn.Wz) = gcrn.units

(***************************************************************************)
(* ResidualLayer: two stacks of Dropout, Dense and LayerNormalization, a   *)
(* projection of the skip path, the sum.  The model follows the attributes *)
(* the object holds and the width of every tensor; an attribute that was   *)
(* never assigned raises AttributeError where the code reads it.           *)
(***************************************************************************)
MaxLayers == 2     \* Dense layers of a stack (len(unit1s), len(unit2s)): 1..MaxLayers

\* The lists of 1..MaxLayers widths.
UnitLists == UNION { [1..n -> 1..MaxU] : n \in 1..MaxLayers }

Last(units) == units[Len(units)]

\* ResidualLayer.__init__(unit1s, unit2s): the layers a caller may
\* construct; given is whether unit2s is a list (not None).  The attributes
\* layer2 and unit2s are assigned only then.
ResLayers ==
    { [phase |-> "ready", line |-> 0, built |-> FALSE,
       attrs |-> {"layer1", "unit1s"}
                 \cup (IF given THEN {"layer2", "unit2s"} ELSE {}),
       unit1s |-> u1, unit2s |-> IF given THEN u2 ELSE <<>>,
       layer1 |-> <<>>, layer2 |-> <<>>, layer |-> 0, in_width |-> 0,
       inputs |-> <<>>, x |-> <<>>, y |-> <<>>, projected |-> FALSE,
       outputs |-> <<>>] :
      u1 \in UnitLists, u2 \in UnitLists, given \in BOOLEAN }

\* Lines 48-53: Sequential.add of a Dropout, a Dense and a
\* LayerNormalization per unit; what the stack already holds stays.
RECURSIVE Added(_, _, _)
Added(stack, units, k) ==
    IF k > Len(units) THEN stack
    ELSE Added(stack \o <<[layer |-> "Dropout", units |-> 0],
                           [layer |-> "Dense", units |-> units[k]],
                           [layer |-> "LayerNormalization", units |-> 0]>>,
               units, k + 1)

\* ResidualLayer.build(input_shape), width = input_shape[-1].
ResBuild(layer, width) ==
    LET with1 == [layer EXCEPT !.layer1 = Added(layer.layer1, layer.unit1s, 1)]
    IN  IF ~("unit2s" \in layer.attrs)
        THEN [with1 EXCEPT !.phase = "raised", !.line = 54]
        ELSE LET with2 == [with1 EXCEPT !.layer2 = Added(layer.layer2, layer.unit2s, 1)]
                 projection == Last(layer.unit2s) # Last(layer.unit1s)
             IN  [with2 EXCEPT
                    !.layer = IF projection THEN Last(layer.unit1s) ELSE layer.layer,
                    !.attrs = layer.attrs
                              \cup (IF projection THEN {"layer"} ELSE {})
                              \cup {"norm"},
                    !.built = TRUE]

\* The width a stack returns: that of its last Dense layer.
RECURSIVE StackWidth(_, _, _)
StackWidth(stack, width, k) ==
    IF k > Len(stack) THEN width
    ELSE StackWidth(stack,
                    IF stack[k].layer = "Dense" THEN stack[k].units ELSE width, k + 1)

\* The shape of a + b under broadcasting; <<>> if the shapes do not agree.
SumShape(a, b) ==
    IF a[1] = b[1] /\ (a[2] = b[2] \/ a[2] = 1 \/ b[2] = 1)
    THEN <<a[1], Max2(a[2], b[2])>> ELSE <<>>

\* ResidualLayer.call(inputs) on a built layer; the tensors are their
\* shapes, inputs = <<batch, width>>.  The Dense layers of the stacks are
\* built for the width of the first inputs.
ResApply(layer, inputs) ==
    LET called == [layer EXCEPT !.inputs = inputs, !.x = <<>>, !.y = <<>>,
                                !.projected = FALSE, !.outputs = <<>>]
        x == <<inputs[1], StackWidth(layer.layer1, inputs[2], 1)>>
        y == <<inputs[1], StackWidth(layer.layer2, inputs[2], 1)>>
    IN  IF layer.in_width # 0 /\ inputs[2] # layer.in_width
        THEN [called EXCEPT !.phase = "raised", !.line = 70]
        ELSE IF ~("unit2s" \in layer.attrs)
        THEN [called EXCEPT !.phase = "raised", !.line = 71, !.in_width = inputs[2],
                            !.x = x]
        ELSE IF ~("layer" \in layer.attrs)
        THEN [called EXCEPT !.phase = "raised", !.line = 73, !.in_width = inputs[2],
                            !.x = x, !.y = y]
        ELSE LET projected == <<inputs[1], layer.layer>>
             IN  IF SumShape(x, projected) = <<>>
                 THEN [called EXCEPT !.phase = "raised", !.line = 75,
                                     !.in_width = inputs[2], !.x = x, !.y = projected,
                                     !.projected = TRUE]
                 ELSE [called EXCEPT !.phase = "returned", !.in_width = inputs[2],
                                     !.x = x, !.y = projected, !.projected = TRUE,
                                     !.outputs = SumShape(x, projected)]

\* The first call of a layer that is not built: build, then, if build
\* returned, call.
ResFirstCall(inputs) ==
    /\ resid.phase = "ready"
    /\ ~resid.built
    /\ Len(resid.layer1) < 3 * MaxLayers * MaxSteps
    /\ LET built == ResBuild(resid, inputs[2])
       IN  resid' = IF built.phase = "raised" THEN [built EXCEPT !.inputs = inputs]
                    ELSE ResApply(built, inputs)
    /\ UNCHANGED <<flt, gc, gat, agg, gru, lstm, tlstm, gcrn>>

\* A later call.
ResCall(inputs) ==
    /\ resid.phase = "ready"
    /\ resid.built
    /\ resid' = ResApply(resid, inputs)
    /\ UNCHANGED <<flt, gc, gat, agg, gru, lstm, tlstm, gcrn>>

\* The caller takes the result, or the error.
ResRelease ==
    /\ resid.phase \in {"returned", "raised"}
    /\ resid' = [resid EXCEPT !.phase = "ready", !.line = 0, !.inputs = <<>>,
                              !.x = <<>>, !.y = <<>>, !.projected = FALSE,
                              !.outputs = <<>>]
    /\ UNCHANGED <<flt, gc, gat, agg, gru, lstm, tlstm, gcrn>>

InitRes ==
    resid \in ResLayers /\ flt = FilterNew /\ gc = GcIdle /\ gat = GatIdle
    /\ CellsIdle /\ agg = Idle

NextRes ==
    \/ \E batch \in 1..MaxN, width \in 1..MaxF : ResFirstCall(<<batch, width>>)
    \/ \E batch \in 1..MaxN, width \in 1..MaxF : ResCall(<<batch, width>>)
    \/ ResRelease

SpecRes == InitRes /\ [][NextRes]_vars

(***************************************************************************)
(* Claims about ResidualLayer.                                             *)
(***************************************************************************)
\* The width of the skip path before any projection: that of the second
\* stack when unit2s is given, that of the inputs when it is None.
ResSkipWidth ==
    IF "unit2s" \in resid.attrs THEN Last(resid.unit2s) ELSE resid.inputs[2]

\* C17: every call of a ResidualLayer, built for its inputs, returns; the
\* two summands have the same width; the skip path went through a
\* projection to width unit1s[-1] exactly when its width was not
\* unit1s[-1].
C17_Claim ==
    (resid.phase \in {"returned", "raised"}
     /\ (resid.in_width = 0 \/ resid.in_width = resid.inputs[2])) =>
        /\ resid.phase = "returned"
        /\ resid.x[2] = resid.y[2]
        /\ resid.projected <=> ResSkipWidth # Last(resid.unit1s)
        /\ resid.projected => resid.y[2] = Last(resid.unit1s)

\* What of C17 the code keeps: a call returns exactly when unit2s is given
\* and ends in another width than unit1s; then the projection is applied
\* and both summands have width unit1s[-1].  With unit2s None build raises
\* at line 54; with equal last widths call raises at line 73.
C17_OnlyProjected ==
    (resid.phase \in {"returned", "raised"}
     /\ (resid.in_width = 0 \/ resid.in_width = resid.inputs[2])) =>
        IF ~("unit2s" \in resid.attrs)
        THEN resid.phase = "raised" /\ resid.line = 54 /\ ~resid.built
        ELSE IF Last(resid.unit2s) = Last(resid.unit1s)
        THEN resid.phase = "raised" /\ resid.line = 73
        ELSE /\ resid.phase = "returned"
             /\ resid.projected
             /\ resid.x[2] = Last(resid.unit1s)
             /\ resid.y[2] = Last(resid.unit1s)
             /\ resid.outputs = <<resid.inputs[1], Last(resid.unit1s)>>

(***************************************************************************)
(* Claims about the shapes of TLSTMCell.                                   *)
(***************************************************************************)
\* Line 533: the columns of the feature slice, counted from 0.
TlstmFeatureCols == 0..(tlstm.embed_size - 1)

\* Line 532: the columns of the time-gap slice.
TlstmGapCols == tlstm.embed_size..(tlstm.embed_size + tlstm.delta_dim - 1)

\* C21: in a built TLSTMCell called on an input of the width it was built
\* for, the columns of the feature slice and of the time-gap slice are
\* disjoint and together are the columns of the input, and each of Wf, Wi,
\* Wo, Wc has as many rows as the feature slice has columns.
C21_Claim ==
    (/\ tlstm.built
     /\ tlstm.phase \in {"returned", "raised"}
     /\ Cols(tlstm.gaps) = tlstm.delta_dim) =>
        /\ TlstmFeatureCols \cap TlstmGapCols = {}
        /\ TlstmFeatureCols \cup TlstmGapCols = 0..(Cols(tlstm.input) - 1)
        /\ \A K \in {tlstm.Wf, tlstm.Wi, tlstm.Wo, tlstm.Wc} :
              Rows(K) = Cardinality(TlstmFeatureCols)

\* What the code keeps: the feature slice is every column but the last,
\* whatever delta_dim is, so the two slices are the columns of the input
\* exactly when delta_dim = 1; and every gate kernel has one row more than
\* the feature slice has columns.
C21_OffByOne ==
    (/\ tlstm.built
     /\ tlstm.phase \in {"returned", "raised"}
     /\ Cols(tlstm.gaps) = tlstm.delta_dim) =>
        /\ Cardinality(TlstmFeatureCols) = Cols(tlstm.input) - 1
        /\ (TlstmFeatureCols \cup TlstmGapCols = 0..(Cols(tlstm.input) - 1))
              <=> tlstm.delta_dim = 1
        /\ \A K \in {tlstm.Wf, tlstm.Wi, tlstm.Wo, tlstm.Wc} :
              Rows(K) = Cardinality(TlstmFeatureCols) + 1

====
